---- MODULE Spec2Model ----
(***************************************************************************)
(* Model of the pre-render configuration pipeline of the site generator:   *)
(* the asset downloader (pipeline/download-assets.js), the validation      *)
(* orchestrator (pipeline/schemas.js, pipeline/validate-config.js), the    *)
(* build command and its loop over the pipeline steps (bin/siteforge.js),  *)
(* the resolution of localized texts (src/lib/i18n.ts) and the cache of    *)
(* the image analysis (pipeline/analyze-images.js).                        *)
(***************************************************************************)
EXTENDS Integers, Sequences, FiniteSets, TLC

(***************************************************************************)
(* Bounds of the model.                                                    *)
(***************************************************************************)
\* number of value slots of the configuration tree that may hold a reference
NSlots == 3
\* number of consecutive runs of downloadAssets against the same file and directory
MaxRuns == 2

\* const MAX_REDIRECTS = 5
MAX_REDIRECTS == 5

(***************************************************************************)
(* URLs, filenames and slot values.                                        *)
(*                                                                         *)
(* A filename is the sequence of its base and the numeric suffixes         *)
(* appended to it: <<1>> is image.jpg, <<1, 2>> is image_2.jpg,            *)
(* <<1, 2, 2>> is image_2_2.jpg.  A URL is a host and the last segment of  *)
(* its path.                                                               *)
(***************************************************************************)
Urls ==
  { [host |-> "a", seg |-> <<1>>],      \* https://a/image.jpg
    [host |-> "b", seg |-> <<1>>],      \* https://b/image.jpg
    [host |-> "a", seg |-> <<1, 2>>] }  \* https://a/image_2.jpg

Slots == 1..NSlots

Remote(u) == [kind |-> "remote", url |-> u]
Other == [kind |-> "other"]

\* path.join(relativeAssetsDir, filename).replace(/\\/g, '/')
LocalRef(f) == [kind |-> "local", file |-> f]

\* value.startsWith('http://') || value.startsWith('https://')
isRemoteUrl(v) == v.kind = "remote"

\* the last path segment of the URL; the host plays no part
localFilenameFromUrl(u) == u.seg

\* fs.existsSync(path.join(dir, filename))
existsSync(dir, f) == f \in DOMAIN dir

(***************************************************************************)
(* Pure helpers of download-assets.js.                                     *)
(***************************************************************************)
RECURSIVE collectFrom(_, _)
collectFrom(t, i) ==
  IF i > NSlots THEN << >>
  ELSE IF isRemoteUrl(t[i])
       THEN << [url |-> t[i].url, set |-> i] >> \o collectFrom(t, i + 1)
       ELSE collectFrom(t, i + 1)

\* one entry {url, set} per slot holding a remote URL, in traversal order;
\* the setter of an entry is named by the slot it overwrites
collectRemoteUrls(t) == collectFrom(t, 1)

RECURSIVE groupInto(_, _)
groupInto(entries, map) ==
  IF entries = << >> THEN map
  ELSE LET e == Head(entries)
           known == \E k \in 1..Len(map) : map[k].url = e.url
           next == IF known
                   THEN [k \in 1..Len(map) |->
                          IF map[k].url = e.url
                          THEN [map[k] EXCEPT !.setters = @ \cup {e.set}]
                          ELSE map[k]]
                   ELSE Append(map, [url |-> e.url, setters |-> {e.set}])
       IN groupInto(Tail(entries), next)

\* a Map that keeps one entry for every reference
onePerReference(entries) ==
  [k \in 1..Len(entries) |-> [url |-> entries[k].url, setters |-> {entries[k].set}]]

\* the Map url -> setters, in insertion order (first occurrence of each URL)
deduplicateByUrl(entries) == groupInto(entries, << >>)

RECURSIVE nextCandidate(_, _, _, _)
nextCandidate(dir, filename, reserved, counter) ==
  LET candidate == Append(filename, counter)
  IN IF ~existsSync(dir, candidate) /\ candidate \notin reserved
     THEN candidate
     ELSE nextCandidate(dir, filename, reserved, counter + 1)

\* a search for a free name that looks at the directory only
ignoresReserved(dir, filename, reserved) ==
  IF ~existsSync(dir, filename) THEN filename
  ELSE nextCandidate(dir, filename, {}, 2)

uniqueFilename(dir, filename, reserved) ==
  IF ~existsSync(dir, filename) /\ filename \notin reserved
  THEN filename
  ELSE nextCandidate(dir, filename, reserved, 2)

\* for (const set of setters) set(ref)
applySetters(t, setters, ref) ==
  [i \in Slots |-> IF i \in setters THEN ref ELSE t[i]]

(***************************************************************************)
(* Validation: pipeline/schemas.js.                                        *)
(*                                                                         *)
(* A text value is "ok" (a non-empty string), "uber" (a German string of   *)
(* ten or more characters with the word Uber), "empty" (the string "")     *)
(* or "absent".  A list value is "ok" (one valid element or more), "empty" *)
(* or "absent".  A button is "absent", or names the destinations it has:   *)
(* "none", "anchor", "href".  The stats of a hero are absent or a list of  *)
(* entries, each "ok" or "empty" (an entry whose value is "").  An issue   *)
(* of a schema carries its path joined with '.', its message, and whether  *)
(* the parse was aborted by it (a type mismatch) or only made dirty (a     *)
(* failed check).                                                          *)
(***************************************************************************)
Issue(path, message, aborted) ==
  [path |-> path, message |-> message, aborted |-> aborted]

\* nonEmptyString, on a string
nonEmptyString(v, path) ==
  IF v = "" THEN << Issue(path, "Must not be empty", FALSE) >> ELSE << >>

\* LocalizedTextSchema: the union reports the issue of its dirty option, or
\* 'Invalid input' when every option is aborted
LocalizedTextSchema(v, path) ==
  CASE v = "empty" -> << Issue(path, "Text must not be empty", FALSE) >>
    [] v = "absent" -> << Issue(path, "Invalid input", TRUE) >>
    [] OTHER -> << >>

optionalText(v, path) ==
  IF v = "absent" THEN << >> ELSE LocalizedTextSchema(v, path)

\* z.array(...).min(1, message)
nonEmptyArray(v, path, message) ==
  CASE v = "empty" -> << Issue(path, message, FALSE) >>
    [] v = "absent" -> << Issue(path, "Required", TRUE) >>
    [] OTHER -> << >>

\* a button schema without the refinement
anyDestination(v, path) ==
  IF v = "absent" THEN << Issue(path, "Required", TRUE) >> ELSE << >>

\* CtaButtonSchema: the refinement (data) => data.anchor || data.href
CtaButtonSchema(v, path) ==
  CASE v = "none" ->
         << Issue(path, "Either \"anchor\" or \"href\" must be provided", FALSE) >>
    [] v = "absent" -> << Issue(path, "Required", TRUE) >>
    [] OTHER -> << >>

aborts(issues) == \E k \in 1..Len(issues) : issues[k].aborted

RECURSIVE statsEntries(_, _)
\* the entries of stats from k on: value is a nonEmptyString
statsEntries(entries, k) ==
  IF k > Len(entries) THEN << >>
  ELSE (IF entries[k] = "empty"
        THEN nonEmptyString("", "stats." \o ToString(k - 1) \o ".value")
        ELSE << >>)
       \o statsEntries(entries, k + 1)

\* lines 188-192: stats is an optional array of entries, of any length
HeroStats(stats) ==
  IF stats.present THEN statsEntries(stats.entries, 1) ELSE << >>

HeroPropsSchema(props) ==
  LocalizedTextSchema(props.title, "title")
    \o (IF props.cta = "absent" THEN << >> ELSE CtaButtonSchema(props.cta, "cta.0"))
    \o HeroStats(props.stats)

\* the refinement runs unless a field aborted the parse of the object
ServicesPropsSchema(props) ==
  LET fields == LocalizedTextSchema(props.title, "title")
  IN fields \o
     (IF ~aborts(fields) /\ ~(props.services \/ props.groups)
      THEN << Issue("", "Either \"services\" or \"groups\" must be provided", FALSE) >>
      ELSE << >>)

GalleryPropsSchema(props) ==
  LocalizedTextSchema(props.title, "title")
    \o nonEmptyArray(props.items, "items", "Gallery must have at least one item")

AboutPropsSchema(props) ==
  LocalizedTextSchema(props.title, "title")
    \o nonEmptyArray(props.content, "content",
                     "About section must have at least one content paragraph")

\* ctaCard.buttons: z.array(CtaButtonSchema).optional(), of one button if present
ContactPropsSchema(props) ==
  LocalizedTextSchema(props.title, "title")
    \o (IF props.cta = "absent" THEN << >>
        ELSE CtaButtonSchema(props.cta, "ctaCard.buttons.0"))

HoursPropsSchema(props) ==
  LocalizedTextSchema(props.title, "title")
    \o nonEmptyArray(props.schedule, "schedule",
                     "Schedule must have at least one day entry")

FeaturedPropsSchema(props) ==
  LocalizedTextSchema(props.title, "title")
    \o (IF props.item = "absent" THEN << Issue("item", "Required", TRUE) >> ELSE << >>)

TestimonialsPropsSchema(props) ==
  LocalizedTextSchema(props.title, "title")
    \o nonEmptyArray(props.testimonials, "testimonials",
                     "Testimonials section must have at least one testimonial")

CtaBannerPropsSchema(props) ==
  LocalizedTextSchema(props.title, "title") \o CtaButtonSchema(props.cta, "cta")

TextBlockPropsSchema(props) ==
  optionalText(props.title, "title") \o LocalizedTextSchema(props.content, "content")

MapPropsSchema(props) == optionalText(props.title, "title")

VALID_SECTION_TYPES ==
  { "hero", "services", "gallery", "about", "contact", "hours", "featured",
    "testimonials", "cta-banner", "text-block", "map" }

\* the keys of sectionPropsSchemas
SectionSchemaKeys ==
  { "hero", "services", "gallery", "about", "contact", "hours", "featured",
    "testimonials", "cta-banner", "text-block", "map" }

\* sectionPropsSchemas[sectionType].safeParse(props)
sectionPropsSchemas(sectionType, props) ==
  CASE sectionType = "hero" -> HeroPropsSchema(props)
    [] sectionType = "services" -> ServicesPropsSchema(props)
    [] sectionType = "gallery" -> GalleryPropsSchema(props)
    [] sectionType = "about" -> AboutPropsSchema(props)
    [] sectionType = "contact" -> ContactPropsSchema(props)
    [] sectionType = "hours" -> HoursPropsSchema(props)
    [] sectionType = "featured" -> FeaturedPropsSchema(props)
    [] sectionType = "testimonials" -> TestimonialsPropsSchema(props)
    [] sectionType = "cta-banner" -> CtaBannerPropsSchema(props)
    [] sectionType = "text-block" -> TextBlockPropsSchema(props)
    [] sectionType = "map" -> MapPropsSchema(props)

\* an error or warning of the orchestrator
Defect(path, message) == [path |-> path, message |-> message]

\* `sections[${sectionIndex}]`, with the index counted from 0
sectionPath(i) == "sections[" \o ToString(i - 1) \o "]"

validateSectionProps(sectionType, props, i) ==
  IF sectionType \notin SectionSchemaKeys
  THEN << Defect(sectionPath(i) \o ".type", "Unknown section type") >>
  ELSE LET issues == sectionPropsSchemas(sectionType, props)
       IN [k \in 1..Len(issues) |->
            Defect(sectionPath(i) \o ".props"
                     \o (IF issues[k].path # "" THEN "." \o issues[k].path ELSE ""),
                   issues[k].message)]

\* SectionConfigSchema on element i of the sections array; the path of an issue
\* is the array path sections, i, key joined with '.'
SectionConfigSchema(section, i) ==
  LET at == "sections." \o ToString(i - 1)
  IN (IF section.type \in VALID_SECTION_TYPES THEN << >>
      ELSE << Issue(at \o ".type", "Invalid enum value", TRUE) >>)
     \o nonEmptyString(section.id, at \o ".id")

RECURSIVE sectionsIssues(_, _)
sectionsIssues(sections, i) ==
  IF i > Len(sections) THEN << >>
  ELSE SectionConfigSchema(sections[i], i) \o sectionsIssues(sections, i + 1)

\* NavigationConfigSchema: ctaButton is an optional object of label, anchor?,
\* href?, phone? with no rule across its fields
NavigationConfigSchema(navigation) == << >>

\* a refinement that lets every default language pass
anyDefaultLanguage(c) == TRUE

\* lines 631-636: the refinement of SiteConfigSchema
includesDefaultLanguage(c) ==
  IF c.languagesSupplied /\ Len(c.languages) > 0
  THEN \E k \in 1..Len(c.languages) : c.languages[k] = c.defaultLanguage
  ELSE TRUE

\* SiteConfigSchema.safeParse(config): the issues, in the order of the shape;
\* the refinement runs unless a field aborted the parse of the object
SiteConfigSchema(c) ==
  IF ~c.isObject THEN << Issue("", "Expected object", TRUE) >>
  ELSE LET fields ==
             nonEmptyString(c.name, "name")
               \o NavigationConfigSchema(c.navigation)
               \o (IF Len(c.sections) < 1
                   THEN << Issue("sections", "At least one section is required", FALSE) >>
                   ELSE sectionsIssues(c.sections, 1))
       IN fields \o
          (IF ~aborts(fields) /\ ~includesDefaultLanguage(c)
           THEN << Issue("defaultLanguage",
                         "defaultLanguage must be included in the languages array",
                         FALSE) >>
           ELSE << >>)

\* the issues of a failed top-level parse as errors: issue.path.join('.') || '(root)'
rootErrors(issues) ==
  [k \in 1..Len(issues) |->
     Defect(IF issues[k].path = "" THEN "(root)" ELSE issues[k].path,
            issues[k].message)]

RECURSIVE sectionErrors(_, _)
\* Step 2: the errors of validateSectionProps for every section from i on
sectionErrors(sections, i) ==
  IF i > Len(sections) THEN << >>
  ELSE validateSectionProps(sections[i].type, sections[i].props, i)
         \o sectionErrors(sections, i + 1)

\* Step 3: if (!validConfig.seo)
seoWarnings(c) ==
  IF c.seo THEN << >>
  ELSE << Defect("seo", "No \"seo\" field found") >>

\* `Duplicate section id "${section.id}"`
duplicateId(i, id) ==
  Defect(sectionPath(i) \o ".id", "Duplicate section id \"" \o id \o "\"")

RECURSIVE forgetsIds(_, _, _)
\* a loop that never adds an id to the Set
forgetsIds(sections, i, sectionIds) ==
  IF i > Len(sections) THEN << >>
  ELSE (IF sections[i].id \in sectionIds
        THEN << duplicateId(i, sections[i].id) >>
        ELSE << >>)
       \o forgetsIds(sections, i + 1, sectionIds)

RECURSIVE duplicateIdWarnings(_, _, _)
\* Step 3: the loop over the sections with the Set sectionIds
duplicateIdWarnings(sections, i, sectionIds) ==
  IF i > Len(sections) THEN << >>
  ELSE (IF sections[i].id \in sectionIds
        THEN << duplicateId(i, sections[i].id) >>
        ELSE << >>)
       \o duplicateIdWarnings(sections, i + 1, sectionIds \cup {sections[i].id})

\* checkLanguageCharacters(text, langCode): the text "uber" is the one value
\* that matches a suspicious pattern, and it is a German pattern
checkLanguageCharacters(text, langCode) == langCode = "de" /\ text = "uber"

RECURSIVE localeWarnings(_, _, _, _)
\* Step 4: checkLocalizedText over the props of every section; a plain string
\* is checked once, against the default language when that is de or fr
localeWarnings(sections, i, lang, checkedTexts) ==
  IF i > Len(sections) THEN << >>
  ELSE LET text == sections[i].props.title
           checks == /\ text \notin {"absent", "empty"}
                     /\ lang \in {"de", "fr"}
                     /\ text \notin checkedTexts
       IN (IF checks /\ checkLanguageCharacters(text, lang)
           THEN << Defect(sectionPath(i) \o ".props.title",
                          "German text may be missing proper characters") >>
           ELSE << >>)
          \o localeWarnings(sections, i + 1, lang,
                            IF checks THEN checkedTexts \cup {text} ELSE checkedTexts)

\* a failed top-level parse that goes on to the sections and the warnings
fallThrough(c, issues) ==
  [valid |-> FALSE,
   errors |-> rootErrors(issues) \o sectionErrors(c.sections, 1),
   warnings |-> seoWarnings(c) \o duplicateIdWarnings(c.sections, 1, {})]

\* lines 683-694: the return taken when the top-level parse fails
rootFailure(c, issues) ==
  [valid |-> FALSE, errors |-> rootErrors(issues), warnings |-> << >>]

\* a result that warnings make invalid
validWithoutWarnings(errors, warnings) == Len(errors) = 0 /\ Len(warnings) = 0

\* lines 800-804: valid: errors.length === 0
isValid(errors, warnings) == Len(errors) = 0

validateSiteConfig(c) ==
  LET issues == SiteConfigSchema(c)
  IN IF Len(issues) > 0
     THEN rootFailure(c, issues)
     ELSE LET errors == sectionErrors(c.sections, 1)
              warnings == seoWarnings(c)
                            \o duplicateIdWarnings(c.sections, 1, {})
                            \o localeWarnings(c.sections, 1, c.defaultLanguage, {})
          IN [valid |-> isValid(errors, warnings),
              errors |-> errors,
              warnings |-> warnings]

(***************************************************************************)
(* The TypeScript schemas: src/schemas/sections.ts, src/schemas/config.ts.  *)
(* sections.ts holds the same text as pipeline/schemas.js for every schema *)
(* of the section props but HeroPropsSchema; config.ts has its own         *)
(* SectionConfigSchema, SiteConfigSchema and validateSiteConfig.           *)
(***************************************************************************)
\* sections.ts 141-147: stats is an optional array of two to four entries
HeroStatsTs(stats) ==
  IF ~stats.present THEN << >>
  ELSE (IF Len(stats.entries) < 2
        THEN << Issue("stats", "Stats must have at least 2 items", FALSE) >>
        ELSE << >>)
       \o (IF Len(stats.entries) > 4
           THEN << Issue("stats", "Stats cannot exceed 4 items", FALSE) >>
           ELSE << >>)
       \o statsEntries(stats.entries, 1)

HeroPropsSchemaTs(props) ==
  LocalizedTextSchema(props.title, "title")
    \o (IF props.cta = "absent" THEN << >> ELSE CtaButtonSchema(props.cta, "cta.0"))
    \o HeroStatsTs(props.stats)

\* sectionPropsSchemas[sectionType as SectionType].safeParse(props)
sectionPropsSchemasTs(sectionType, props) ==
  IF sectionType = "hero" THEN HeroPropsSchemaTs(props)
  ELSE sectionPropsSchemas(sectionType, props)

validateSectionPropsTs(sectionType, props, i) ==
  IF sectionType \notin SectionSchemaKeys
  THEN << Defect(sectionPath(i) \o ".type", "Unknown section type") >>
  ELSE LET issues == sectionPropsSchemasTs(sectionType, props)
       IN [k \in 1..Len(issues) |->
            Defect(sectionPath(i) \o ".props"
                     \o (IF issues[k].path # "" THEN "." \o issues[k].path ELSE ""),
                   issues[k].message)]

\* config.ts: type is the enum, id is z.string(), of any length
SectionConfigSchemaTs(section, i) ==
  IF section.type \in VALID_SECTION_TYPES THEN << >>
  ELSE << Issue("sections." \o ToString(i - 1) \o ".type", "Invalid enum value", TRUE) >>

RECURSIVE sectionsIssuesTs(_, _)
sectionsIssuesTs(sections, i) ==
  IF i > Len(sections) THEN << >>
  ELSE SectionConfigSchemaTs(sections[i], i) \o sectionsIssuesTs(sections, i + 1)

\* config.ts: name and defaultLanguage are z.string(), the ctaButton of the
\* navigation has no rule across its fields, the refinement is the same
SiteConfigSchemaTs(c) ==
  IF ~c.isObject THEN << Issue("", "Expected object", TRUE) >>
  ELSE LET fields ==
             IF Len(c.sections) < 1
             THEN << Issue("sections", "At least one section is required", FALSE) >>
             ELSE sectionsIssuesTs(c.sections, 1)
       IN fields \o
          (IF ~aborts(fields) /\ ~includesDefaultLanguage(c)
           THEN << Issue("defaultLanguage",
                         "defaultLanguage must be included in the languages array",
                         FALSE) >>
           ELSE << >>)

RECURSIVE sectionErrorsTs(_, _)
sectionErrorsTs(sections, i) ==
  IF i > Len(sections) THEN << >>
  ELSE validateSectionPropsTs(sections[i].type, sections[i].props, i)
         \o sectionErrorsTs(sections, i + 1)

\* config.ts: steps 1 to 3; there is no check of the language characters
validateSiteConfigTs(c) ==
  LET issues == SiteConfigSchemaTs(c)
  IN IF Len(issues) > 0
     THEN [valid |-> FALSE, errors |-> rootErrors(issues), warnings |-> << >>]
     ELSE LET errors == sectionErrorsTs(c.sections, 1)
              warnings == seoWarnings(c) \o duplicateIdWarnings(c.sections, 1, {})
          IN [valid |-> Len(errors) = 0, errors |-> errors, warnings |-> warnings]

\* a message of the result of validateConfig: one line of text
Line(text) == [line |-> text]

\* `${error.path}: ${error.message}`
formatDefects(defects) ==
  [k \in 1..Len(defects) |-> Line(defects[k].path \o ": " \o defects[k].message)]

\* validate-config.js, validateConfig: the file is "missing", "invalid-json" or
\* "json"; the errors key is left out of a passing result
validateConfig(file, c) ==
  CASE file = "missing" ->
         [valid |-> FALSE, errors |-> << Line("Config file not found") >>, warnings |-> << >>]
    [] file = "invalid-json" ->
         [valid |-> FALSE, errors |-> << Line("Config file is not valid JSON") >>,
          warnings |-> << >>]
    [] OTHER ->
         LET result == validateSiteConfig(c)
             errors == formatDefects(result.errors)
             warnings == formatDefects(result.warnings)
         IN IF Len(errors) = 0
            THEN [valid |-> TRUE, errors |-> << >>, warnings |-> warnings]
            ELSE [valid |-> FALSE, errors |-> errors, warnings |-> warnings]

(***************************************************************************)
(* Inputs of the validation.                                               *)
(***************************************************************************)
\* number of sections of a configuration
MaxSections == 2

NoStats == [present |-> FALSE, entries |-> << >>]
Stats(entries) == [present |-> TRUE, entries |-> entries]

GoodProps ==
  [title |-> "ok", content |-> "ok", items |-> "ok", schedule |-> "ok",
   testimonials |-> "ok", item |-> "ok", services |-> TRUE, groups |-> FALSE,
   cta |-> "anchor", stats |-> NoStats]

Section(type, id, props) == [type |-> type, id |-> id, props |-> props]

SectionInputs ==
  { Section("hero", "a", GoodProps),
    Section("hero", "b", GoodProps),
    Section("hero", "", GoodProps),
    Section("hero", "a", [GoodProps EXCEPT !.title = "empty"]),
    Section("hero", "b", [GoodProps EXCEPT !.title = "empty"]),
    Section("hero", "a", [GoodProps EXCEPT !.title = "uber"]),
    Section("hero", "a", [GoodProps EXCEPT !.cta = "none"]),
    Section("hero", "a", [GoodProps EXCEPT !.stats = Stats(<< "ok" >>)]),
    Section("hero", "b", [GoodProps EXCEPT !.stats = Stats(<< "ok", "ok", "ok" >>)]),
    Section("hero", "a",
            [GoodProps EXCEPT !.stats = Stats(<< "ok", "ok", "ok", "ok", "ok" >>)]),
    Section("hero", "b", [GoodProps EXCEPT !.stats = Stats(<< "ok", "empty" >>)]),
    Section("services", "a", [GoodProps EXCEPT !.services = FALSE]),
    Section("services", "a", [GoodProps EXCEPT !.services = FALSE, !.title = "absent"]),
    Section("gallery", "a", [GoodProps EXCEPT !.items = "empty"]),
    Section("text-block", "a", [GoodProps EXCEPT !.content = "absent", !.title = "absent"]),
    Section("cta-banner", "a", [GoodProps EXCEPT !.cta = "none"]),
    Section("contact", "b", [GoodProps EXCEPT !.cta = "none"]),
    Section("banner", "a", GoodProps),
    Section("banner", "b", [GoodProps EXCEPT !.title = "empty"]) }

SectionLists == UNION { [1..n -> SectionInputs] : n \in 0..MaxSections }

\* supplied tells whether the configuration has a languages key
Languages(supplied, languages, defaultLanguage) ==
  [supplied |-> supplied, languages |-> languages, defaultLanguage |-> defaultLanguage]

LanguageInputs ==
  { Languages(FALSE, << >>, "en"),
    Languages(TRUE, << >>, "en"),
    Languages(TRUE, << "en" >>, "en"),
    Languages(TRUE, << "en" >>, "de"),
    Languages(TRUE, << "en", "de" >>, "de") }

\* ctaButton of the navigation: "absent", or the destinations it has
Navigation(ctaButton) == [ctaButton |-> ctaButton]

Config(isObject, name, l, seo, navigation, sections) ==
  [isObject |-> isObject, name |-> name, languagesSupplied |-> l.supplied,
   languages |-> l.languages, defaultLanguage |-> l.defaultLanguage, seo |-> seo,
   navigation |-> navigation, sections |-> sections]

NoConfig ==
  Config(FALSE, "", Languages(FALSE, << >>, "en"), FALSE, Navigation("absent"), << >>)

ConfigInputs ==
  { Config(TRUE, name, l, seo, Navigation(b), sections) :
      name \in {"Camino", ""}, l \in LanguageInputs, seo \in BOOLEAN,
      b \in {"absent", "none"}, sections \in SectionLists }
  \cup {NoConfig}

NoResult == [valid |-> FALSE, errors |-> << >>, warnings |-> << >>]

(***************************************************************************)
(* State.                                                                  *)
(***************************************************************************)
VARIABLES
  configFile,         \* the configuration file on disk: slot -> value
  disk,               \* the destination directory: filename -> file content
  pendingUnlink,      \* fs.unlink calls issued and not yet carried out
  run,                \* number of runs of downloadAssets started
  pc,                 \* position of the run
  config,             \* the parsed tree held by the run
  urlMap,             \* the Map of deduplicateByUrl, as a sequence
  idx,                \* position of the for-of loop in urlMap
  stats,              \* {downloaded, skipped, errors}
  reservedFilenames,  \* filenames claimed in this run
  cur,                \* url, rawFilename, filename of the iteration
  redirectsLeft,      \* argument of the doRequest in flight
  requests,           \* transport.get calls of the download in flight
  redirects,          \* 3xx responses received by the download in flight
  settled,            \* how the promise of downloadFile settled
  fetches,            \* per URL: downloadFile calls of this run
  outcome,            \* per URL: how this run disposed of it
  writes,             \* writeFileSync calls of this run that succeeded
  prevFile,           \* configFile as the run found it
  prevErrors,         \* length of the errors list the previous run returned
  vfile,              \* the state of the file handed to validateConfig
  vcfg,               \* the configuration handed to the validation
  vcalled,            \* the validation function that ran, if any
  vres,               \* the result it returned
  currentLanguage,    \* i18n.ts: let currentLanguage
  defaultLanguage,    \* i18n.ts: let defaultLanguage
  availableLanguages, \* i18n.ts: let availableLanguages
  localStorage,       \* the item siteforge-language, "" when there is none
  hasWindow,          \* typeof window !== "undefined"
  tcall,              \* the last call of t in the present i18n state
  lcall,              \* the last call of initI18n or setLanguage
  scripts,            \* the step scripts found in the pipeline directory
  pphase,             \* position of runPipeline
  pstep,              \* position of its loop in PIPELINE_STEPS
  tally,              \* its counters passed, skipped, warned, failed
  executed,           \* the steps whose script it has executed, in order
  wtree,              \* the tree handed to collectRemoteUrls
  wentries,           \* the entries it returned
  wlast,              \* the last call made on the tree or on an entry
  images,             \* analyze-images.js: the image files found, sorted
  existingAnalysis,   \* the images of the previous output, by filename
  analysisResults,    \* results.images of the run
  imageIndex,         \* position of the loop over images
  counts,             \* its counters analyzed and skipped
  sent,               \* per filename: requests sent to the vision service
  aphase,             \* position of analyzeAllImages
  assetDir,           \* download-assets.js with strings: the outputDir argument
  refFields,          \* the string fields of the tree, each with its schema
  refUrls,            \* the keys of the Map that are still to be processed
  refPhase,           \* position of this downloadAssets and of the validation
  refResult           \* what validateSiteConfig returned on the written tree

dlVars == << pc, config, urlMap, idx, stats, reservedFilenames, cur,
             redirectsLeft, requests, redirects, settled >>
histVars == << fetches, outcome, writes, prevFile, prevErrors >>
valVars == << vfile, vcfg, vcalled, vres >>
i18nVars == << currentLanguage, defaultLanguage, availableLanguages, localStorage,
               hasWindow, tcall, lcall >>
downloaderVars == << configFile, disk, pendingUnlink, run, dlVars, histVars >>
pipeVars == << scripts, pphase, pstep, tally, executed >>
walkVars == << wtree, wentries, wlast >>
analysisVars == << images, existingAnalysis, analysisResults, imageIndex, counts,
                   sent, aphase >>
rewriteVars == << assetDir, refFields, refUrls, refPhase, refResult >>
\* the variables that no step of the downloader, of the validation, of the
\* localisation, of runPipeline itself, of the walk, of the image analysis,
\* or of the rewrite on strings, touches
besideDownloader == << valVars, i18nVars, pipeVars, walkVars, analysisVars,
                      rewriteVars >>
besideValidation == << downloaderVars, i18nVars, pipeVars, walkVars, analysisVars,
                      rewriteVars >>
besideLocalisation == << downloaderVars, valVars, pipeVars, walkVars, analysisVars,
                        rewriteVars >>
besidePipeline == << downloaderVars, valVars, i18nVars, walkVars, analysisVars,
                    rewriteVars >>
besideWalk == << downloaderVars, valVars, i18nVars, pipeVars, analysisVars,
                rewriteVars >>
besideAnalysis == << downloaderVars, valVars, i18nVars, pipeVars, walkVars,
                    rewriteVars >>
besideRewrite == << downloaderVars, valVars, i18nVars, pipeVars, walkVars,
                   analysisVars >>
vars == << downloaderVars, valVars, i18nVars, pipeVars, walkVars, analysisVars,
          rewriteVars >>

\* a call of t: its argument and what it returned
NoCall == [called |-> FALSE]

NoCur == [url |-> "none"]
ErrorKinds == {"http", "redirects", "network", "timeout", "stream"}

InitConfigs == [Slots -> {Remote(u) : u \in Urls} \cup {Other}]

\* the state before the first run against configuration file cf
InitDownloader(cf) ==
  /\ configFile = cf
  /\ disk = << >>
  /\ pendingUnlink = {}
  /\ run = 0
  /\ pc = "idle"
  /\ config = configFile
  /\ urlMap = << >>
  /\ idx = 1
  /\ stats = [downloaded |-> 0, skipped |-> 0, errors |-> << >>]
  /\ reservedFilenames = {}
  /\ cur = NoCur
  /\ redirectsLeft = 0
  /\ requests = 0
  /\ redirects = 0
  /\ settled = "none"
  /\ fetches = [u \in Urls |-> 0]
  /\ outcome = [u \in Urls |-> "none"]
  /\ writes = 0
  /\ prevFile = configFile
  /\ prevErrors = 0

\* the state before a validation of configuration c read from a file in state f
InitValidator(f, c) ==
  /\ vfile = f
  /\ vcfg = c
  /\ vcalled = "none"
  /\ vres = NoResult

\* i18n.ts as loaded: the initial values of its three module variables
InitI18n(window, stored) ==
  /\ currentLanguage = "en"
  /\ defaultLanguage = "en"
  /\ availableLanguages = << "en" >>
  /\ localStorage = stored
  /\ hasWindow = window
  /\ tcall = NoCall
  /\ lcall = [fn |-> "none"]

\* lines 292-317
PIPELINE_STEPS ==
  << [name |-> "validate-config", required |-> TRUE],
     [name |-> "download-assets", required |-> FALSE],
     [name |-> "optimize-images", required |-> FALSE],
     [name |-> "generate-metadata", required |-> FALSE] >>

StepNames == {PIPELINE_STEPS[k].name : k \in 1..Len(PIPELINE_STEPS)}

\* the state before runPipeline, in a pipeline directory that holds found
InitPipeline(found) ==
  /\ scripts = found
  /\ pphase = "idle"
  /\ pstep = 1
  /\ tally = [passed |-> 0, skipped |-> 0, warned |-> 0, failed |-> 0]
  /\ executed = << >>

\* a parsed JSON document: the value at its root, and its slots (object keys
\* and array indexes) in document order, each below the root (0) or below an
\* earlier slot
Tree(root, nodes) == [root |-> root, nodes |-> nodes]
Null == [kind |-> "null"]
NoTree == Tree(Null, << >>)

\* downloadAssets called without outputDir, on a tree without string fields
NoDir == [given |-> FALSE, segments |-> << >>]
NoFields == << >>
NoIssues == [valid |-> TRUE, errors |-> << >>]
InitRewrite(dir, tree) ==
  /\ assetDir = dir
  /\ refFields = tree
  /\ refUrls = << >>
  /\ refPhase = "idle"
  /\ refResult = NoIssues

\* findImages of a directory without image files
NoImages == << >>
\* an entry of the images of an output file; hash "" is an entry without _hash
ImageEntry(hash, error) == [present |-> TRUE, hash |-> hash, error |-> error]
NoEntry == [present |-> FALSE, hash |-> "", error |-> FALSE]
\* let existingAnalysis = { images: {} }
NoOutput == [k \in {} |-> NoEntry]

\* the state before analyzeAllImages(dirPath), in a directory that holds the
\* image files found and a previous output
InitAnalysis(found, previous) ==
  /\ images = found
  /\ existingAnalysis = previous
  /\ analysisResults = [k \in DOMAIN previous |-> NoEntry]
  /\ imageIndex = 1
  /\ counts = [analyzed |-> 0, skipped |-> 0]
  /\ sent = [k \in DOMAIN previous |-> 0]
  /\ aphase = "idle"

\* the state before collectRemoteUrls(tree)
InitWalk(tree) ==
  /\ wtree = tree
  /\ wentries = << >>
  /\ wlast = [called |-> "none"]

Init ==
  /\ \E cf \in InitConfigs : InitDownloader(cf)
  /\ InitValidator("json", NoConfig)
  /\ InitI18n(FALSE, "")
  /\ InitPipeline(StepNames)
  /\ InitWalk(NoTree)
  /\ InitAnalysis(NoImages, NoOutput)
  /\ InitRewrite(NoDir, NoFields)

(***************************************************************************)
(* File system operations on the destination directory.                    *)
(***************************************************************************)
\* fs.createWriteStream(destPath): the file exists, empty, once opened
createWriteStream(dir, f, u) == [g \in DOMAIN dir \cup {f} |->
                                  IF g = f THEN [src |-> u, complete |-> FALSE]
                                  ELSE dir[g]]
\* the body has been written and the stream closed
finishFile(dir, f) == [dir EXCEPT ![f].complete = TRUE]
\* fs.unlink(destPath)
unlink(dir, f) == [g \in DOMAIN dir \ {f} |-> dir[g]]

(***************************************************************************)
(* downloadAssets: from the call to the first await.                       *)
(***************************************************************************)
\* lines 267-312: read and parse the file, collect, deduplicate
StartRun ==
  /\ pc \in {"idle", "returned"}
  /\ run < MaxRuns
  /\ pendingUnlink = {}
  /\ run' = run + 1
  /\ config' = configFile
  /\ prevFile' = configFile
  /\ prevErrors' = Len(stats.errors)
  /\ fetches' = [u \in Urls |-> 0]
  /\ outcome' = [u \in Urls |-> "none"]
  /\ writes' = 0
  /\ stats' = [downloaded |-> 0, skipped |-> 0, errors |-> << >>]
  /\ reservedFilenames' = {}
  /\ idx' = 1
  /\ cur' = NoCur
  /\ settled' = "none"
  /\ LET entries == collectRemoteUrls(configFile)
     IN IF Len(entries) = 0
        THEN /\ pc' = "returned"
             /\ urlMap' = << >>
        ELSE /\ pc' = "loop"
             /\ urlMap' = deduplicateByUrl(entries)
  /\ UNCHANGED besideDownloader
  /\ UNCHANGED << configFile, disk, pendingUnlink, redirectsLeft, requests, redirects >>

\* the positions at which the promise of downloadAssets has rejected
Rejections == {"rejected: read", "rejected: parse", "rejected: mkdir"}

\* the promise of downloadAssets rejects at position how: the run has done
\* nothing but read or collect
Rejects(how) ==
  /\ pc \in {"idle", "returned"}
  /\ run < MaxRuns
  /\ pendingUnlink = {}
  /\ run' = run + 1
  /\ config' = configFile
  /\ prevFile' = configFile
  /\ prevErrors' = Len(stats.errors)
  /\ fetches' = [u \in Urls |-> 0]
  /\ outcome' = [u \in Urls |-> "none"]
  /\ writes' = 0
  /\ stats' = [downloaded |-> 0, skipped |-> 0, errors |-> << >>]
  /\ reservedFilenames' = {}
  /\ idx' = 1
  /\ cur' = NoCur
  /\ settled' = "none"
  /\ pc' = how
  /\ UNCHANGED besideDownloader
  /\ UNCHANGED << configFile, disk, pendingUnlink, redirectsLeft, requests, redirects >>

\* lines 281-285: readFileSync throws, `Failed to read config file` is thrown
ReadFails ==
  /\ Rejects("rejected: read")
  /\ urlMap' = << >>

\* lines 287-292: JSON.parse throws, `Failed to parse config JSON` is thrown
ParseFails ==
  /\ Rejects("rejected: parse")
  /\ urlMap' = << >>

\* line 310: fs.mkdirSync(resolvedOutputDir) throws, outside any try block,
\* when the output directory cannot be created (the path names a file, or
\* lies where the process may not write)
MkdirFails ==
  /\ Len(collectRemoteUrls(configFile)) > 0
  /\ Rejects("rejected: mkdir")
  /\ urlMap' = deduplicateByUrl(collectRemoteUrls(configFile))

\* lines 314-320: the names of one iteration
iteration(dir, reserved, url) ==
  LET rawFilename == localFilenameFromUrl(url)
  IN [url |-> url,
      rawFilename |-> rawFilename,
      filename |-> uniqueFilename(dir, rawFilename, reserved)]

\* line 319: path.join(relativeAssetsDir, filename)
localRef(it) == LocalRef(it.filename)

\* a cache hit that refers to the name the iteration claimed
claimedRef(it) == LocalRef(it.filename)

\* line 326: path.join(relativeAssetsDir, rawFilename)
existingLocalRef(it) == LocalRef(it.rawFilename)

\* lines 314-334: an iteration that finds the derived filename on disk
ProcessCached ==
  /\ pc = "loop"
  /\ idx <= Len(urlMap)
  /\ LET it == iteration(disk, reservedFilenames, urlMap[idx].url)
     IN /\ existsSync(disk, it.rawFilename)
        /\ reservedFilenames' = reservedFilenames \cup {it.filename}
        /\ config' = applySetters(config, urlMap[idx].setters, existingLocalRef(it))
        /\ stats' = [stats EXCEPT !.skipped = @ + 1]
        /\ outcome' = [outcome EXCEPT ![it.url] = "skipped"]
        /\ cur' = it
  /\ idx' = idx + 1
  /\ UNCHANGED besideDownloader
  /\ UNCHANGED << configFile, disk, pendingUnlink, run, pc, urlMap, redirectsLeft,
                  requests, redirects, settled, fetches, writes, prevFile, prevErrors >>

\* lines 314-339 and 90-153: an iteration that calls downloadFile, which issues
\* doRequest(urlString, maxRedirects)
StartDownload ==
  /\ pc = "loop"
  /\ idx <= Len(urlMap)
  /\ LET it == iteration(disk, reservedFilenames, urlMap[idx].url)
     IN /\ ~existsSync(disk, it.rawFilename)
        /\ reservedFilenames' = reservedFilenames \cup {it.filename}
        /\ cur' = it
        /\ fetches' = [fetches EXCEPT ![it.url] = @ + 1]
  /\ redirectsLeft' = MAX_REDIRECTS
  /\ requests' = 1
  /\ redirects' = 0
  /\ settled' = "none"
  /\ pc' = "request"
  /\ UNCHANGED besideDownloader
  /\ UNCHANGED << configFile, disk, pendingUnlink, run, config, urlMap, idx, stats,
                  outcome, writes, prevFile, prevErrors >>

(***************************************************************************)
(* downloadFile: the handlers of the request in flight.                    *)
(***************************************************************************)
\* a limit that is one redirect short
redirectsShortByOne(left) == left <= 1

\* if (redirectsLeft <= 0) reject 'Too many redirects'
tooManyRedirects(left) == left <= 0

\* the promise settles; the awaiting loop resumes in Resume
Settle(how) ==
  /\ settled' = how
  /\ pc' = "settled"

\* lines 104-119: a 3xx response carrying a Location header
ResponseRedirect ==
  /\ pc = "request"
  /\ pendingUnlink = {}
  /\ redirects' = redirects + 1
  /\ IF tooManyRedirects(redirectsLeft)
     THEN /\ Settle("redirects")
          /\ UNCHANGED << redirectsLeft, requests >>
     ELSE /\ redirectsLeft' = redirectsLeft - 1
          /\ requests' = requests + 1
          /\ UNCHANGED << pc, settled >>
  /\ UNCHANGED besideDownloader
  /\ UNCHANGED << configFile, disk, pendingUnlink, run, config, urlMap, idx, stats,
                  reservedFilenames, cur, histVars >>

\* lines 121-126: a response that is neither 2xx nor a 3xx with a Location
ResponseHttpError ==
  /\ pc = "request"
  /\ pendingUnlink = {}
  /\ Settle("http")
  /\ UNCHANGED besideDownloader
  /\ UNCHANGED << configFile, disk, pendingUnlink, run, config, urlMap, idx, stats,
                  reservedFilenames, cur, redirectsLeft, requests, redirects, histVars >>

\* lines 128-129: a 2xx response; its body is piped to the destination file
ResponseOk ==
  /\ pc = "request"
  /\ pendingUnlink = {}
  /\ disk' = createWriteStream(disk, cur.filename, cur.url)
  /\ pc' = "transfer"
  /\ UNCHANGED besideDownloader
  /\ UNCHANGED << configFile, pendingUnlink, run, config, urlMap, idx, stats,
                  reservedFilenames, cur, redirectsLeft, requests, redirects,
                  settled, histVars >>

\* lines 141-143: req.on('error') before a response arrived
RequestError ==
  /\ pc = "request"
  /\ pendingUnlink = {}
  /\ Settle("network")
  /\ UNCHANGED besideDownloader
  /\ UNCHANGED << configFile, disk, pendingUnlink, run, config, urlMap, idx, stats,
                  reservedFilenames, cur, redirectsLeft, requests, redirects, histVars >>

\* lines 146-149: the socket stays idle for 30 s, before the response or while
\* its body is piped; the request is destroyed, the destination file is not touched
RequestTimeout ==
  /\ pc \in {"request", "transfer"}
  /\ pendingUnlink = {}
  /\ Settle("timeout")
  /\ UNCHANGED besideDownloader
  /\ UNCHANGED << configFile, disk, pendingUnlink, run, config, urlMap, idx, stats,
                  reservedFilenames, cur, redirectsLeft, requests, redirects, histVars >>

\* lines 131-133: fileStream 'finish'
StreamFinish ==
  /\ pc = "transfer"
  /\ disk' = finishFile(disk, cur.filename)
  /\ Settle("resolved")
  /\ UNCHANGED besideDownloader
  /\ UNCHANGED << configFile, pendingUnlink, run, config, urlMap, idx, stats,
                  reservedFilenames, cur, redirectsLeft, requests, redirects, histVars >>

\* lines 135-139: fileStream 'error': fs.unlink is issued with an empty callback
\* and the promise is rejected at once
StreamError ==
  /\ pc = "transfer"
  /\ pendingUnlink' = pendingUnlink \cup {cur.filename}
  /\ Settle("stream")
  /\ UNCHANGED besideDownloader
  /\ UNCHANGED << configFile, disk, run, config, urlMap, idx, stats,
                  reservedFilenames, cur, redirectsLeft, requests, redirects, histVars >>

\* lines 128-139: the connection is closed before the body is complete.  The
\* response is destroyed; it has no 'error', 'aborted' or 'close' listener and
\* pipe ends the file stream on 'end' only, so neither 'finish' nor 'error'
\* of the file stream follows, and the timer of line 146 went with the socket:
\* the promise is never settled and the loop never resumes
ResponseClosed ==
  /\ pc = "transfer"
  /\ pendingUnlink = {}
  /\ pc' = "hung"
  /\ UNCHANGED besideDownloader
  /\ UNCHANGED << configFile, disk, pendingUnlink, run, config, urlMap, idx, stats,
                  reservedFilenames, cur, redirectsLeft, requests, redirects,
                  settled, histVars >>

\* the unlink of line 137 is carried out by the thread pool
UnlinkDone ==
  /\ \E f \in pendingUnlink :
       /\ disk' = unlink(disk, f)
       /\ pendingUnlink' = pendingUnlink \ {f}
  /\ UNCHANGED besideDownloader
  /\ UNCHANGED << configFile, run, dlVars, histVars >>

(***************************************************************************)
(* downloadAssets: after the await, and the write-back.                    *)
(***************************************************************************)
\* a failed download recorded under the message of the write-back
errorWithoutUrl(u) == [about |-> "write"]

\* `Failed to download ${url}: ${err.message}`
downloadError(u) == [about |-> "download", url |-> u]
\* `Failed to write updated config: ${err.message}`
writeError == [about |-> "write"]

\* a download that leaves the tree as it is
leaveRemote(t, setters, ref) == t

\* lines 343-345: the setters of a downloaded URL
rewriteDownloaded(t, setters, ref) == applySetters(t, setters, ref)

\* a failed download that ends the loop
abortLoop(i, n) == n + 1

\* the iteration that follows a failed download: the catch block ends the
\* iteration, the loop goes on
afterError(i, n) == i + 1

\* lines 337-351: the try block resumes after await downloadFile
Resume ==
  /\ pc = "settled"
  /\ IF settled = "resolved"
     THEN /\ config' = rewriteDownloaded(config, urlMap[idx].setters, localRef(cur))
          /\ stats' = [stats EXCEPT !.downloaded = @ + 1]
          /\ outcome' = [outcome EXCEPT ![cur.url] = "downloaded"]
          /\ idx' = idx + 1
     ELSE /\ stats' = [stats EXCEPT !.errors =
                         Append(@, downloadError(cur.url))]
          /\ outcome' = [outcome EXCEPT ![cur.url] = "failed"]
          /\ idx' = afterError(idx, Len(urlMap))
          /\ UNCHANGED config
  /\ pc' = "loop"
  /\ settled' = "none"
  /\ UNCHANGED besideDownloader
  /\ UNCHANGED << configFile, disk, pendingUnlink, run, urlMap, reservedFilenames,
                  cur, redirectsLeft, requests, redirects, fetches, writes,
                  prevFile, prevErrors >>

\* a loop that is left once its first iteration is over
afterFirst(i, n) == i > 1

\* the for-of loop over urlMap is exhausted
loopDone(i, n) == i > n

\* lines 353-358: writeFileSync succeeds
WriteBack ==
  /\ pc = "loop"
  /\ loopDone(idx, Len(urlMap))
  /\ configFile' = config
  /\ writes' = writes + 1
  /\ pc' = "returned"
  /\ UNCHANGED besideDownloader
  /\ UNCHANGED << disk, pendingUnlink, run, config, urlMap, idx, stats,
                  reservedFilenames, cur, redirectsLeft, requests, redirects,
                  settled, fetches, outcome, prevFile, prevErrors >>

\* lines 358-362: writeFileSync throws; the message joins the errors list
WriteBackFails ==
  /\ pc = "loop"
  /\ loopDone(idx, Len(urlMap))
  /\ stats' = [stats EXCEPT !.errors = Append(@, writeError)]
  /\ pc' = "returned"
  /\ UNCHANGED besideDownloader
  /\ UNCHANGED << configFile, disk, pendingUnlink, run, config, urlMap, idx,
                  reservedFilenames, cur, redirectsLeft, requests, redirects,
                  settled, histVars >>

Next ==
  \/ StartRun
  \/ ReadFails
  \/ ParseFails
  \/ MkdirFails
  \/ ProcessCached
  \/ StartDownload
  \/ ResponseRedirect
  \/ ResponseHttpError
  \/ ResponseOk
  \/ RequestError
  \/ RequestTimeout
  \/ StreamFinish
  \/ StreamError
  \/ ResponseClosed
  \/ UnlinkDone
  \/ Resume
  \/ WriteBack
  \/ WriteBackFails

Spec == Init /\ [][Next]_vars

(***************************************************************************)
(* Properties of the asset downloader.                                     *)
(***************************************************************************)
\* the slots that held URL u when the run read the file
slotsOf(u) == {s \in Slots : isRemoteUrl(prevFile[s]) /\ prevFile[s].url = u}
\* the unique URLs of the run
runUrls == {urlMap[k].url : k \in 1..Len(urlMap)}
\* the position of a URL of the run in the Map
position(u) == CHOOSE k \in 1..Len(urlMap) : urlMap[k].url = u
\* the error messages of the run about URL u
errorsAbout(u) ==
  {k \in 1..Len(stats.errors) :
     stats.errors[k].about = "download" /\ stats.errors[k].url = u}
\* every slot of u holds the same local path
sameLocalPath(t, u) ==
  \A s, r \in slotsOf(u) : t[s].kind = "local" /\ t[s] = t[r]
noFetches == \A u \in Urls : fetches[u] = 0

\* C1 (as stated): in one run, every URL of the tree has exactly one download
\* started for it.  Stated for the URLs that share their derived filename with
\* no other URL of the run, in a directory that holds complete files only.
C1_ExactlyOneFetch ==
  (pc = "returned" /\ \A f \in DOMAIN disk : disk[f].complete) =>
    \A u \in runUrls :
      (\A v \in runUrls : v # u => localFilenameFromUrl(v) # localFilenameFromUrl(u))
        => fetches[u] = 1

\* C1 (amended): in one run at most one download is started for a URL, however
\* many slots hold it: exactly one when the URL is downloaded or fails, none when
\* it is served from the cache; once a URL is resolved, all its slots hold the
\* same local path.
C1_AtMostOneFetch ==
  /\ \A u \in Urls : fetches[u] <= 1
  /\ pc = "returned" =>
       \A u \in runUrls :
         /\ outcome[u] \in {"downloaded", "failed"} => fetches[u] = 1
         /\ outcome[u] = "skipped" => fetches[u] = 0
         /\ outcome[u] \in {"downloaded", "skipped"} => sameLocalPath(config, u)

C1_Witness ==
  /\ pc = "returned"
  /\ \E u \in runUrls :
       /\ Cardinality(slotsOf(u)) = NSlots
       /\ outcome[u] = "downloaded"
       /\ fetches[u] = 1
       /\ sameLocalPath(configFile, u)

C3_CollisionSuffix ==
  (pc = "returned" /\ run = 1) =>
    \A u, v \in runUrls :
      ( /\ position(u) < position(v)
        /\ localFilenameFromUrl(u) = <<1>>
        /\ localFilenameFromUrl(v) = <<1>>
        /\ outcome[u] \in {"downloaded", "skipped"}
        /\ outcome[v] \in {"downloaded", "skipped"} )
      => /\ existsSync(disk, <<1>>)
         /\ existsSync(disk, <<1, 2>>)
         /\ \A s \in slotsOf(u) : config[s] = LocalRef(<<1>>)
         /\ \A s \in slotsOf(v) : config[s] = LocalRef(<<1, 2>>)

\* C4: a download issues at most MAX_REDIRECTS + 1 requests; it fails with
\* 'Too many redirects' only on its sixth redirect, so a chain of up to five
\* redirects that ends in a 2xx response is followed to its end, and the
\* download succeeds with the body saved complete at its destination.
C4_RedirectLimit ==
  /\ requests <= MAX_REDIRECTS + 1
  /\ redirects <= MAX_REDIRECTS + 1
  /\ pc \in {"request", "transfer"} => requests = redirects + 1
  /\ pc = "settled" =>
       /\ settled = "redirects" <=> redirects = MAX_REDIRECTS + 1
       /\ settled = "resolved" =>
            /\ redirects <= MAX_REDIRECTS
            /\ requests = redirects + 1
            /\ existsSync(disk, cur.filename)
            /\ disk[cur.filename] = [src |-> cur.url, complete |-> TRUE]

C4_Witness ==
  /\ pc = "settled"
  /\ settled = "resolved"
  /\ redirects = MAX_REDIRECTS
  /\ disk[cur.filename].complete

\* C5: a failed download adds exactly one error message about its URL, and the
\* run still disposes of every other unique URL: at return each unique URL is
\* downloaded, skipped or failed, with one message per failed URL and none for
\* the others.
C5_FailureDoesNotAbort ==
  pc = "returned" =>
    \A u \in runUrls :
      /\ outcome[u] \in {"downloaded", "skipped", "failed"}
      /\ Cardinality(errorsAbout(u)) = (IF outcome[u] = "failed" THEN 1 ELSE 0)

C5_Witness ==
  /\ pc = "returned"
  /\ \E u, v \in runUrls :
       /\ position(u) < position(v)
       /\ outcome[u] = "failed"
       /\ Cardinality(errorsAbout(u)) = 1
       /\ outcome[v] = "downloaded"

\* C6: once downloadFile has reported a failure, no file is left at its
\* destination path: none exists, or its removal has been issued.
C6_NoTruncatedFile ==
  (pc = "settled" /\ settled # "resolved") =>
    \/ ~existsSync(disk, cur.filename)
    \/ cur.filename \in pendingUnlink

\* the step takes the URL at the head of the loop
processes == pc = "loop" /\ idx <= Len(urlMap) /\ (idx' # idx \/ pc' # pc)

\* C18: when the loop takes a unique URL whose derived filename is on disk at
\* that moment, no request has been or is made for the URL, every slot that
\* held it is set to the path of the file of that name, and the URL is
\* counted as skipped and not as downloaded.
C18_CacheHit ==
  [][ (processes /\ existsSync(disk, localFilenameFromUrl(urlMap[idx].url))) =>
        LET u == urlMap[idx].url
        IN /\ pc' = "loop"
           /\ fetches'[u] = 0
           /\ fetches' = fetches
           /\ \A s \in slotsOf(u) : config'[s] = LocalRef(localFilenameFromUrl(u))
           /\ \A s \in Slots \ slotsOf(u) : config'[s] = config[s]
           /\ stats'.skipped = stats.skipped + 1
           /\ stats'.downloaded = stats.downloaded
           /\ stats'.errors = stats.errors
           /\ outcome'[u] = "skipped" ]_vars

\* a URL held by two slots has been served from the file of its derived name
C18_Witness ==
  /\ pc = "loop"
  /\ cur # NoCur
  /\ outcome[cur.url] = "skipped"
  /\ fetches[cur.url] = 0
  /\ Cardinality(slotsOf(cur.url)) >= 2
  /\ existsSync(disk, cur.rawFilename)
  /\ \A s \in slotsOf(cur.url) : config[s] = LocalRef(cur.rawFilename)
  /\ stats.skipped = 1

\* the messages of the run about a write-back that threw
writeErrors == {k \in 1..Len(stats.errors) : stats.errors[k] = writeError}

\* every slot of a downloaded or cached URL holds a local path, every slot of
\* a failed URL the URL it held
rewritten(t) ==
  \A u \in runUrls : \A s \in slotsOf(u) :
    /\ outcome[u] \in {"downloaded", "skipped"} => t[s].kind = "local"
    /\ outcome[u] = "failed" => t[s] = Remote(u)

C20_NoSharedFilename ==
  [][ /\ processes =>
           /\ cur'.url = urlMap[idx].url
           /\ cur'.filename \notin reservedFilenames
           /\ reservedFilenames' = reservedFilenames \cup {cur'.filename}
           /\ pc' = "request" => ~existsSync(disk, cur'.filename)
      /\ (~processes /\ run' = run) => reservedFilenames' = reservedFilenames
      /\ (pc = "request" /\ pc' = "transfer") =>
           /\ cur.filename \in reservedFilenames
           /\ ~existsSync(disk, cur.filename)
           /\ \A f \in DOMAIN disk : disk'[f] = disk[f] ]_vars

\* two URLs that derive the same filename have both started a download in one
\* run, the second under a suffixed name
C20_Witness ==
  /\ pc = "transfer"
  /\ cur.rawFilename = <<1>>
  /\ cur.filename = <<1, 2>>
  /\ reservedFilenames = {<<1>>, <<1, 2>>}
  /\ \E u \in runUrls : u # cur.url /\ fetches[u] = 1 /\ fetches[cur.url] = 1
  /\ disk[cur.filename].src = cur.url

\* C21: errors are returned as data.  A run of downloadAssets rejects only
\* where the configuration file is read or parsed; a run that returned lists
\* one message for each failed download and one for a write-back that threw;
\* validateConfig, for a missing file or a file that is not JSON, returns
\* valid = false with exactly one error and no warning.
C21_ErrorsAsData ==
  /\ pc \in Rejections => pc \in {"rejected: read", "rejected: parse"}
  /\ pc = "returned" =>
       /\ \A u \in runUrls : outcome[u] = "failed" <=> errorsAbout(u) # {}
       /\ (runUrls # {} /\ writes = 0) => writeErrors # {}
  /\ (vcalled = "validateConfig" /\ vfile \in {"missing", "invalid-json"}) =>
       (~vres.valid /\ Len(vres.errors) = 1 /\ vres.warnings = << >>)

\* C22: every download settles: a download that has started is never at a
\* position from which none of its handlers can settle it, and it settles as
\* saved or with an error (HTTP status, too many redirects, network,
\* timeout, write stream); so a run returns with every unique URL processed,
\* the URLs after a failed or timed-out one included.
C22_DownloadsSettle ==
  /\ pc # "hung"
  /\ pc = "settled" =>
       settled \in {"resolved", "http", "redirects", "network", "timeout", "stream"}
  /\ pc = "returned" => \A u \in runUrls : outcome[u] # "none"

\* C26: whenever the loop resolves a URL by a cache hit, the file it resolves
\* to holds the complete body that was downloaded from that URL: not the body
\* of another URL with the same derived filename, and not a file that a
\* failed or timed-out download left partially written.
C26_CacheIntegrity ==
  [][ (processes /\ existsSync(disk, localFilenameFromUrl(urlMap[idx].url))) =>
        LET u == urlMap[idx].url
            f == localFilenameFromUrl(u)
        IN /\ outcome'[u] = "skipped"
           /\ disk[f].src = u
           /\ disk[f].complete ]_vars

\* the messages of the run about a download that failed
downloadErrors == {k \in 1..Len(stats.errors) : stats.errors[k].about = "download"}

\* C27: when downloadAssets returns, downloaded + skipped + the number of
\* download errors is the number of unique remote URLs found; every unique
\* URL is counted in exactly one of the three, a failed one by exactly one
\* message; and the errors list holds at most one entry more, the one of a
\* write-back that threw.
C27_Accounting ==
  pc = "returned" =>
    /\ stats.downloaded + stats.skipped + Cardinality(downloadErrors) = Len(urlMap)
    /\ Cardinality(runUrls) = Len(urlMap)
    /\ stats.downloaded = Cardinality({u \in runUrls : outcome[u] = "downloaded"})
    /\ stats.skipped = Cardinality({u \in runUrls : outcome[u] = "skipped"})
    /\ \A u \in runUrls :
         /\ outcome[u] \in {"downloaded", "skipped", "failed"}
         /\ Cardinality(errorsAbout(u)) = IF outcome[u] = "failed" THEN 1 ELSE 0
    /\ \A k \in downloadErrors : stats.errors[k].url \in runUrls
    /\ Len(stats.errors) - Cardinality(downloadErrors) = Cardinality(writeErrors)
    /\ Cardinality(writeErrors) <= 1

\* a run returned with one URL downloaded, one served from disk and one
\* failed, and with the message of a write-back that threw
C27_Witness ==
  /\ pc = "returned"
  /\ stats.downloaded = 1
  /\ stats.skipped = 1
  /\ Cardinality(downloadErrors) = 1
  /\ Len(urlMap) = 3
  /\ Len(stats.errors) = 2

(***************************************************************************)
(* Validation of a configuration.                                          *)
(***************************************************************************)
\* validateSiteConfig(config)
CallValidateSiteConfig ==
  /\ vcalled = "none"
  /\ vres' = validateSiteConfig(vcfg)
  /\ vcalled' = "validateSiteConfig"
  /\ UNCHANGED << vfile, vcfg, besideValidation >>

\* validateSiteConfig(config) of src/schemas/config.ts
CallValidateSiteConfigTs ==
  /\ vcalled = "none"
  /\ vres' = validateSiteConfigTs(vcfg)
  /\ vcalled' = "validateSiteConfig of config.ts"
  /\ UNCHANGED << vfile, vcfg, besideValidation >>

\* validateConfig(configPath)
CallValidateConfig ==
  /\ vcalled = "none"
  /\ vres' = validateConfig(vfile, vcfg)
  /\ vcalled' = "validateConfig"
  /\ UNCHANGED << vfile, vcfg, besideValidation >>

InitValidate ==
  /\ InitDownloader([s \in Slots |-> Other])
  /\ InitI18n(FALSE, "")
  /\ InitPipeline(StepNames)
  /\ InitWalk(NoTree)
  /\ InitAnalysis(NoImages, NoOutput)
  /\ InitRewrite(NoDir, NoFields)
  /\ \/ \E c \in ConfigInputs : InitValidator("json", c)
     \/ \E f \in {"missing", "invalid-json"} : InitValidator(f, NoConfig)

NextValidate ==
  \/ CallValidateSiteConfig
  \/ CallValidateSiteConfigTs
  \/ CallValidateConfig

SpecValidate == InitValidate /\ [][NextValidate]_vars

(***************************************************************************)
(* Properties of the validation.                                           *)
(***************************************************************************)
Range(seq) == {seq[k] : k \in 1..Len(seq)}

\* the configuration is an object whose only defects, if any, lie in the type
\* tags and the props of its sections
onlySectionDefects(c) ==
  /\ c.isObject
  /\ c.name # ""
  /\ Len(c.sections) >= 1
  /\ \A i \in 1..Len(c.sections) : c.sections[i].id # ""
  /\ includesDefaultLanguage(c)

\* C7: the result of validateSiteConfig and of validateConfig has valid = true
\* exactly when its list of errors is empty, whatever its warnings are.
C7_ValidIffNoErrors ==
  vcalled # "none" => (vres.valid <=> Len(vres.errors) = 0)

C7_Witness ==
  /\ vcalled = "validateSiteConfig"
  /\ vres.valid
  /\ Len(vres.errors) = 0
  /\ Len(vres.warnings) >= 2

\* C8: when the root fails the top-level schema, validateSiteConfig returns
\* valid = false with one error per root issue and nothing else: no error of a
\* section's props and no warning.
C8_FailFast ==
  (vcalled = "validateSiteConfig" /\ Len(SiteConfigSchema(vcfg)) > 0) =>
    /\ ~vres.valid
    /\ Len(vres.errors) = Len(SiteConfigSchema(vcfg))
    /\ Range(vres.errors) \cap Range(sectionErrors(vcfg.sections, 1)) = {}
    /\ vres.warnings = << >>

C8_Witness ==
  /\ vcalled = "validateSiteConfig"
  /\ vcfg.name = ""
  /\ ~vcfg.seo
  /\ Len(sectionErrors(vcfg.sections, 1)) > 0
  /\ Len(duplicateIdWarnings(vcfg.sections, 1, {})) > 0
  /\ ~vres.valid
  /\ Len(vres.errors) = 1
  /\ vres.warnings = << >>

\* C9: a section whose type is none of the eleven known tags is reported with
\* the message 'Unknown section type' at path sections[i].type.
C9_UnknownTypeReported ==
  (vcalled = "validateSiteConfig" /\ onlySectionDefects(vcfg)) =>
    \A i \in 1..Len(vcfg.sections) :
      vcfg.sections[i].type \notin VALID_SECTION_TYPES =>
        Defect(sectionPath(i) \o ".type", "Unknown section type") \in Range(vres.errors)

\* C10: one validation call reports the errors of the props of every section,
\* under sections[i].props, whatever the defect of another section is.
C10_EverySectionReported ==
  (vcalled = "validateSiteConfig" /\ onlySectionDefects(vcfg) /\ Len(vcfg.sections) >= 2) =>
    \A i \in 1..Len(vcfg.sections) :
      vcfg.sections[i].type \in VALID_SECTION_TYPES =>
        Range(validateSectionProps(vcfg.sections[i].type, vcfg.sections[i].props, i))
          \subseteq Range(vres.errors)

\* the number of positions of a sequence that hold d
occurrences(seq, d) == Cardinality({k \in 1..Len(seq) : seq[k] = d})

\* the top-level schema and the props of every section pass
otherwiseValid(c) ==
  /\ SiteConfigSchema(c) = << >>
  /\ sectionErrors(c.sections, 1) = << >>

\* section i repeats the id of an earlier section
repeatsId(sections, i) == \E j \in 1..(i - 1) : sections[j].id = sections[i].id

\* w is a 'Duplicate section id' warning, at whatever section and of whatever id
aboutDuplicateId(sections, w) ==
  \E i, j \in 1..Len(sections) : w = duplicateId(i, sections[j].id)

\* C11: a configuration that is valid apart from repeated section ids passes
\* with valid = true, and its warnings hold exactly one 'Duplicate section id'
\* warning at sections[i].id for each section i that repeats the id of an
\* earlier section, and none for a section that is the first to carry its id.
C11_DuplicateIdWarnings ==
  (vcalled = "validateSiteConfig" /\ otherwiseValid(vcfg)) =>
    /\ vres.valid
    /\ \A i \in 1..Len(vcfg.sections) :
         occurrences(vres.warnings, duplicateId(i, vcfg.sections[i].id))
           = (IF repeatsId(vcfg.sections, i) THEN 1 ELSE 0)
    /\ Cardinality({k \in 1..Len(vres.warnings) :
                      aboutDuplicateId(vcfg.sections, vres.warnings[k])})
         = Cardinality({i \in 1..Len(vcfg.sections) : repeatsId(vcfg.sections, i)})

C11_Witness ==
  /\ vcalled = "validateSiteConfig"
  /\ otherwiseValid(vcfg)
  /\ Len(vcfg.sections) = MaxSections
  /\ \A i \in 2..Len(vcfg.sections) : repeatsId(vcfg.sections, i)
  /\ vres.valid
  /\ occurrences(vres.warnings, duplicateId(1, vcfg.sections[1].id)) = 0
  /\ \A i \in 2..Len(vcfg.sections) :
       occurrences(vres.warnings, duplicateId(i, vcfg.sections[i].id)) = 1

\* the errors of the result that lie at the path defaultLanguage
defaultLanguageErrors ==
  {k \in 1..Len(vres.errors) : vres.errors[k].path = "defaultLanguage"}

\* every section carries one of the eleven known type tags
knownTypes(c) == \A i \in 1..Len(c.sections) : c.sections[i].type \in VALID_SECTION_TYPES

ctaButtonPath(sectionType) ==
  CASE sectionType = "hero" -> "cta.0"
    [] sectionType = "contact" -> "ctaCard.buttons.0"
    [] sectionType = "cta-banner" -> "cta"

\* the sections whose props hold a CtaButton
ctaButtonSections(c) ==
  {i \in 1..Len(c.sections) :
     /\ c.sections[i].type \in {"hero", "contact", "cta-banner"}
     /\ c.sections[i].props.cta # "absent"}

\* the error of a button without a destination, at path
missingDestination(path) ==
  Defect(path, "Either \"anchor\" or \"href\" must be provided")

validStats(section) ==
  /\ section.type = "hero"
  /\ section.props.stats.present
  /\ \A k \in 1..Len(section.props.stats.entries) : section.props.stats.entries[k] = "ok"

\* C15: validateConfig, the validator of the pipeline, rejects a configuration
\* with a hero section whose stats list has fewer than 2 or more than 4
\* entries, and reports nothing under the stats of a hero section that has 2,
\* 3 or 4 valid entries.
C15_StatsBounds ==
  (vcalled = "validateConfig" /\ vfile = "json" /\ SiteConfigSchema(vcfg) = << >>) =>
    \A i \in 1..Len(vcfg.sections) :
      validStats(vcfg.sections[i]) =>
        IF Len(vcfg.sections[i].props.stats.entries) \in 2..4
        THEN \A d \in Range(validateSectionProps("hero", vcfg.sections[i].props, i)) :
               d.path # sectionPath(i) \o ".props.stats"
        ELSE ~vres.valid

\* C23: validateSiteConfig of the pipeline module and validateSiteConfig of
\* the TypeScript module return, for the same configuration, the same valid
\* flag and the same set of errors.
C23_ValidatorsAgree ==
  vcalled = "validateSiteConfig" =>
    LET ts == validateSiteConfigTs(vcfg)
    IN /\ vres.valid = ts.valid
       /\ Range(vres.errors) = Range(ts.errors)

(***************************************************************************)
(* Localisation: src/lib/i18n.ts.                                          *)
(*                                                                         *)
(* A string that is absent (undefined, null) is written "", which is falsy *)
(* like the empty string.  A LocalizedText is a plain string or a map,     *)
(* held as the sequence of its entries in the order of Object.keys.        *)
(***************************************************************************)
\* number of entries of a localized map
MaxEntries == 2

Undefined == [kind |-> "undefined", text |-> "", entries |-> << >>]
PlainString(text) == [kind |-> "string", text |-> text, entries |-> << >>]
LocalizedMap(entries) == [kind |-> "map", text |-> "", entries |-> entries]

\* availableLanguages.includes(lang)
includes(languages, lang) == \E k \in 1..Len(languages) : languages[k] = lang

\* value[key]: the text of the entry, "" when the map has no such key
valueAt(value, key) ==
  LET ks == {k \in 1..Len(value.entries) : value.entries[k].key = key}
  IN IF ks = {} THEN "" ELSE value.entries[CHOOSE k \in ks : TRUE].text

\* a resolution that knows the current language only
currentLanguageOnly(value, current, default, available) ==
  IF value.kind = "string" THEN value.text ELSE valueAt(value, current)

\* lines 88-105: t(value)
t(value, current, default, available) ==
  CASE value.kind = "undefined" -> ""
    [] value.kind = "string" -> value.text
    [] OTHER ->
         LET firstLang == IF Len(available) > 0 THEN available[1] ELSE ""
         IN IF valueAt(value, current) # "" THEN valueAt(value, current)
            ELSE IF valueAt(value, default) # "" THEN valueAt(value, default)
            ELSE IF firstLang # "" /\ valueAt(value, firstLang) # ""
                 THEN valueAt(value, firstLang)
            ELSE IF Len(value.entries) > 0 THEN value.entries[1].text
            ELSE ""

\* lines 8-42: initI18n(config, urlLanguage), as the new values of
\* availableLanguages, defaultLanguage, currentLanguage and the stored item
\* an initialisation that prefers the stored language to that of the URL
storedLanguageFirst(siteConfig, urlLanguage, window, stored) ==
  LET configDefault == IF siteConfig.defaultLanguage # "" THEN siteConfig.defaultLanguage ELSE "en"
      configLangs == siteConfig.languages
      listed == IF Len(configLangs) > 0 THEN configLangs ELSE << configDefault >>
      available == IF includes(listed, configDefault) THEN listed
                   ELSE << configDefault >> \o listed
      fromUrl == urlLanguage # "" /\ includes(available, urlLanguage)
      fromStored == window /\ stored # "" /\ includes(available, stored)
  IN [availableLanguages |-> available,
      defaultLanguage |-> configDefault,
      currentLanguage |-> IF fromStored THEN stored
                          ELSE IF fromUrl THEN urlLanguage
                          ELSE configDefault,
      localStorage |-> stored]

initI18n(siteConfig, urlLanguage, window, stored) ==
  LET configDefault == IF siteConfig.defaultLanguage # "" THEN siteConfig.defaultLanguage ELSE "en"
      configLangs == siteConfig.languages
      listed == IF Len(configLangs) > 0 THEN configLangs ELSE << configDefault >>
      available == IF includes(listed, configDefault) THEN listed
                   ELSE << configDefault >> \o listed
      fromUrl == urlLanguage # "" /\ includes(available, urlLanguage)
      fromStored == window /\ stored # "" /\ includes(available, stored)
  IN [availableLanguages |-> available,
      defaultLanguage |-> configDefault,
      currentLanguage |-> IF fromUrl THEN urlLanguage
                          ELSE IF fromStored THEN stored
                          ELSE configDefault,
      localStorage |-> IF fromUrl /\ window THEN urlLanguage ELSE stored]

(***************************************************************************)
(* Inputs of the localisation.                                             *)
(***************************************************************************)
LanguageCodes == {"en", "de", "it"}

I18nConfigs ==
  { [languages |-> l, defaultLanguage |-> d] :
      l \in { << >>, << "en" >>, << "de", "en" >>, << "it", "de" >> },
      d \in {"", "en", "de"} }

\* an entry of a map: its text is empty or names its key
Entry(k, empty) == [key |-> k, text |-> IF empty THEN "" ELSE k \o " text"]

\* the maps of up to MaxEntries entries with distinct keys
LocalizedMaps ==
  UNION { { LocalizedMap([i \in 1..n |-> Entry(keys[i], empty[i])]) :
              keys \in {f \in [1..n -> LanguageCodes] :
                          \A i, j \in 1..n : i # j => f[i] # f[j]},
              empty \in [1..n -> BOOLEAN] } :
          n \in 0..MaxEntries }

TextInputs == {Undefined, PlainString(""), PlainString("ciao")} \cup LocalizedMaps

(***************************************************************************)
(* The calls of i18n.ts.                                                   *)
(***************************************************************************)
CallInitI18n ==
  /\ \E siteConfig \in I18nConfigs, urlLanguage \in {"", "de", "fr"} :
       LET new == initI18n(siteConfig, urlLanguage, hasWindow, localStorage)
       IN /\ availableLanguages' = new.availableLanguages
          /\ defaultLanguage' = new.defaultLanguage
          /\ currentLanguage' = new.currentLanguage
          /\ localStorage' = new.localStorage
          /\ lcall' = [fn |-> "initI18n", config |-> siteConfig,
                       urlLanguage |-> urlLanguage, stored |-> localStorage]
  /\ tcall' = NoCall
  /\ UNCHANGED << hasWindow, besideLocalisation >>

\* a setLanguage that takes any language
setAnyLanguage(lang, current, available, window, stored) ==
  [currentLanguage |-> lang, localStorage |-> IF window THEN lang ELSE stored]

\* lines 44-66: setLanguage(lang), with updateUrl left at false
setLanguage(lang, current, available, window, stored) ==
  IF includes(available, lang)
  THEN [currentLanguage |-> lang, localStorage |-> IF window THEN lang ELSE stored]
  ELSE [currentLanguage |-> current, localStorage |-> stored]

CallSetLanguage ==
  /\ \E lang \in LanguageCodes \cup {"fr"} :
       /\ LET new == setLanguage(lang, currentLanguage, availableLanguages,
                                 hasWindow, localStorage)
          IN /\ currentLanguage' = new.currentLanguage
             /\ localStorage' = new.localStorage
       /\ lcall' = [fn |-> "setLanguage", lang |-> lang,
                    current |-> currentLanguage, stored |-> localStorage]
  /\ tcall' = NoCall
  /\ UNCHANGED << defaultLanguage, availableLanguages, hasWindow, besideLocalisation >>

CallT ==
  /\ \E value \in TextInputs :
       tcall' = [called |-> TRUE, value |-> value,
                 result |-> t(value, currentLanguage, defaultLanguage,
                              availableLanguages)]
  /\ UNCHANGED << currentLanguage, defaultLanguage, availableLanguages, localStorage,
                  hasWindow, lcall, besideLocalisation >>

InitLocalise ==
  /\ InitDownloader([s \in Slots |-> Other])
  /\ InitValidator("json", NoConfig)
  /\ InitPipeline(StepNames)
  /\ InitWalk(NoTree)
  /\ InitAnalysis(NoImages, NoOutput)
  /\ InitRewrite(NoDir, NoFields)
  \* without a window there is no localStorage and nothing is stored
  /\ \E window \in BOOLEAN :
       \E stored \in (IF window THEN {"", "de", "fr"} ELSE {""}) :
         InitI18n(window, stored)

NextLocalise ==
  \/ CallInitI18n
  \/ CallSetLanguage
  \/ CallT

SpecLocalise == InitLocalise /\ [][NextLocalise]_vars

(***************************************************************************)
(* Properties of the localisation.                                         *)
(***************************************************************************)
hasKey(value, key) == \E k \in 1..Len(value.entries) : value.entries[k].key = key

\* LocalizedTextSchema: a non-empty string, or a map of one entry or more, each
\* with a non-empty text
validLocalizedText(value) ==
  \/ value.kind = "string" /\ value.text # ""
  \/ /\ value.kind = "map"
     /\ Len(value.entries) >= 1
     /\ \A k \in 1..Len(value.entries) : value.entries[k].text # ""

\* C14: for a valid LocalizedText, t returns a non-empty string: a plain string
\* as it is, and of a map the entry of the current language if the map has
\* one, else that of the default language, else that of the first available
\* language, else that of the first key of the map.
C14_FallbackChain ==
  (tcall.called /\ validLocalizedText(tcall.value)) =>
    LET value == tcall.value
    IN /\ tcall.result # ""
       /\ tcall.result =
            (IF value.kind = "string" THEN value.text
             ELSE IF hasKey(value, currentLanguage) THEN valueAt(value, currentLanguage)
             ELSE IF hasKey(value, defaultLanguage) THEN valueAt(value, defaultLanguage)
             ELSE IF hasKey(value, availableLanguages[1])
                  THEN valueAt(value, availableLanguages[1])
             ELSE value.entries[1].text)

\* a map with neither the current nor the default language is resolved through
\* the first available language
C14_Witness ==
  /\ tcall.called
  /\ validLocalizedText(tcall.value)
  /\ tcall.value.kind = "map"
  /\ ~hasKey(tcall.value, currentLanguage)
  /\ ~hasKey(tcall.value, defaultLanguage)
  /\ hasKey(tcall.value, availableLanguages[1])
  /\ tcall.value.entries[1].key # availableLanguages[1]
  /\ tcall.result = availableLanguages[1] \o " text"

\* C24: after initI18n the current language is the URL language when that
\* is an available language, and it is then also the stored language where
\* there is a storage; otherwise it is the language that was stored, when one
\* was stored and is available; otherwise it is the default language.
C24_LanguagePriority ==
  lcall.fn = "initI18n" =>
    LET fromUrl == lcall.urlLanguage # ""
                     /\ includes(availableLanguages, lcall.urlLanguage)
        fromStored == lcall.stored # "" /\ includes(availableLanguages, lcall.stored)
    IN /\ currentLanguage = (IF fromUrl THEN lcall.urlLanguage
                             ELSE IF fromStored THEN lcall.stored
                             ELSE defaultLanguage)
       /\ (fromUrl /\ hasWindow) => localStorage = lcall.urlLanguage
       /\ ~fromUrl => localStorage = lcall.stored

\* the URL names one available language while another one was stored
C24_Witness ==
  /\ lcall.fn = "initI18n"
  /\ lcall.urlLanguage = "de"
  /\ lcall.stored = "it"
  /\ includes(availableLanguages, "it")
  /\ defaultLanguage = "en"
  /\ currentLanguage = "de"
  /\ localStorage = "de"

\* C28: from the load of the module on, through every initI18n and
\* setLanguage, the current language and the default language are in the
\* list of available languages; a setLanguage with a language outside the
\* list leaves the current and the stored language as they were.
C28_LanguagesAvailable ==
  /\ includes(availableLanguages, currentLanguage)
  /\ includes(availableLanguages, defaultLanguage)
  /\ (lcall.fn = "setLanguage" /\ ~includes(availableLanguages, lcall.lang)) =>
       (currentLanguage = lcall.current /\ localStorage = lcall.stored)

\* setLanguage was called with a language that is not available, after the
\* default language had been put in front of a list that lacked it
C28_Witness ==
  /\ lcall.fn = "setLanguage"
  /\ lcall.lang = "fr"
  /\ availableLanguages = << "en", "it", "de" >>
  /\ currentLanguage = "it"
  /\ localStorage = "it"

(***************************************************************************)
(* The pre-build pipeline: bin/siteforge.js, runPipeline and cmdBuild.     *)
(*                                                                         *)
(* runPipelineStep runs the script of a step in a child process and waits  *)
(* for it.  The child of validate-config is one call of validateConfig, it *)
(* exits with 1 when the result is not valid; the child of download-assets *)
(* is one run of downloadAssets, it exits with 1 when the errors list is   *)
(* not empty.  The scripts of the two other steps are not modelled: they   *)
(* end with either exit code.                                              *)
(***************************************************************************)
ValidSite ==
  Config(TRUE, "Camino", Languages(FALSE, << >>, "en"), TRUE, Navigation("absent"),
         << Section("hero", "a", GoodProps) >>)
InvalidSite == [ValidSite EXCEPT !.name = ""]

\* lines 348-351: runPipeline(configPath), to the head of the loop
RunPipeline ==
  /\ pphase = "idle"
  /\ pphase' = "loop"
  /\ UNCHANGED << scripts, pstep, tally, executed, besidePipeline >>

\* counters under which a step that failed fails the pipeline, required or not
everyFailureFails(counters, step, result) ==
  CASE result = "skipped" -> [counters EXCEPT !.skipped = @ + 1]
    [] result = "success" -> [counters EXCEPT !.passed = @ + 1]
    [] OTHER -> [counters EXCEPT !.failed = @ + 1]

\* lines 370-385: the counters after a step that ended with result
count(counters, step, result) ==
  CASE result = "skipped" -> [counters EXCEPT !.skipped = @ + 1]
    [] result = "success" -> [counters EXCEPT !.passed = @ + 1]
    [] result = "failure" /\ ~step.required -> [counters EXCEPT !.warned = @ + 1]
    [] OTHER -> [counters EXCEPT !.failed = @ + 1]

\* lines 319-325: the script of the step is not found, the step is skipped
StepSkipped ==
  /\ pphase = "loop"
  /\ pstep <= Len(PIPELINE_STEPS)
  /\ PIPELINE_STEPS[pstep].name \notin scripts
  /\ tally' = count(tally, PIPELINE_STEPS[pstep], "skipped")
  /\ pstep' = pstep + 1
  /\ UNCHANGED << scripts, pphase, executed, besidePipeline >>

\* lines 327-338: execSync starts the script of the step
StepExec ==
  /\ pphase = "loop"
  /\ pstep <= Len(PIPELINE_STEPS)
  /\ PIPELINE_STEPS[pstep].name \in scripts
  /\ pphase' = "exec"
  /\ executed' = Append(executed, PIPELINE_STEPS[pstep].name)
  /\ UNCHANGED << scripts, pstep, tally, besidePipeline >>

\* the child process of validate-config
ValidateConfigScript ==
  /\ pphase = "exec"
  /\ PIPELINE_STEPS[pstep].name = "validate-config"
  /\ CallValidateConfig

\* the child process of download-assets
DownloadAssetsScript ==
  /\ pphase = "exec"
  /\ PIPELINE_STEPS[pstep].name = "download-assets"
  /\ \/ run = 0 /\ StartRun
     \/ run = 0 /\ MkdirFails
     \/ ProcessCached
     \/ StartDownload
     \/ ResponseRedirect
     \/ ResponseHttpError
     \/ ResponseOk
     \/ RequestError
     \/ RequestTimeout
     \/ StreamFinish
     \/ StreamError
     \/ ResponseClosed
     \/ UnlinkDone
     \/ Resume
     \/ WriteBack
     \/ WriteBackFails

\* the child process has ended, with exit code 0 or not
exited(name) ==
  CASE name = "validate-config" -> vcalled = "validateConfig"
    [] name = "download-assets" -> run = 1 /\ pc \in {"returned", "hung"} \cup Rejections
    [] OTHER -> TRUE

results(name) ==
  CASE name = "validate-config" -> {IF vres.valid THEN "success" ELSE "failure"}
    [] name = "download-assets" ->
         \* a child whose promise is never settled runs out of work and ends
         \* with exit code 0
         {IF pc = "hung" \/ (pc = "returned" /\ Len(stats.errors) = 0)
          THEN "success" ELSE "failure"}
    [] OTHER -> {"success", "failure"}

\* lines 339-345 and 366-385: execSync returns or throws, the result is counted
\* and the loop goes on to the next step, whatever the result is; an unlink the
\* child had not carried out when it exited is lost
StepReturn ==
  /\ pphase = "exec"
  /\ exited(PIPELINE_STEPS[pstep].name)
  /\ \E result \in results(PIPELINE_STEPS[pstep].name) :
       tally' = count(tally, PIPELINE_STEPS[pstep], result)
  /\ pstep' = pstep + 1
  /\ pphase' = "loop"
  /\ pendingUnlink' = {}
  /\ UNCHANGED << scripts, executed, configFile, disk, run, dlVars, histVars,
                  valVars, i18nVars, walkVars, analysisVars, rewriteVars >>

\* lines 387-400: after the loop, process.exit(1) if a required step failed
PipelineEnd ==
  /\ pphase = "loop"
  /\ pstep > Len(PIPELINE_STEPS)
  /\ pphase' = IF tally.failed > 0 THEN "exit 1" ELSE "returned"
  /\ UNCHANGED << scripts, pstep, tally, executed, besidePipeline >>

\* lines 484-486: runPipeline has returned to cmdBuild, runViteBuild starts
\* npx vite build
RunViteBuild ==
  /\ pphase = "returned"
  /\ pphase' = "vite"
  /\ executed' = Append(executed, "vite-build")
  /\ UNCHANGED << scripts, pstep, tally, besidePipeline >>

\* lines 410-427 and 486-499: the build ends; cmdBuild reports it, and calls
\* process.exit(1) when it failed
ViteBuildReturns ==
  /\ pphase = "vite"
  /\ \E buildOk \in BOOLEAN :
       pphase' = IF buildOk THEN "build successful" ELSE "build failed"
  /\ UNCHANGED << scripts, pstep, tally, executed, besidePipeline >>

\* cmdBuild on a configuration: its copy is written to .generated, then
\* runPipeline runs on the copy
InitRunPipeline ==
  /\ \E cf \in InitConfigs : InitDownloader(cf)
  /\ \E c \in {ValidSite, InvalidSite} : InitValidator("json", c)
  /\ InitI18n(FALSE, "")
  /\ \E missing \in {{}, {"generate-metadata"}} : InitPipeline(StepNames \ missing)
  /\ InitWalk(NoTree)
  /\ InitAnalysis(NoImages, NoOutput)
  /\ InitRewrite(NoDir, NoFields)

NextRunPipeline ==
  \/ RunPipeline
  \/ StepSkipped
  \/ StepExec
  \/ ValidateConfigScript
  \/ DownloadAssetsScript
  \/ StepReturn
  \/ PipelineEnd
  \/ RunViteBuild
  \/ ViteBuildReturns

SpecRunPipeline == InitRunPipeline /\ [][NextRunPipeline]_vars

(***************************************************************************)
(* Properties of the pipeline.                                             *)
(***************************************************************************)
\* C16: in a run of the pipeline whose validate-config step failed, the
\* download-assets step is not executed: no URL is fetched and the
\* configuration file stays as the validation found it.
C16_NoDownloadOfInvalidConfig ==
  (vcalled = "validateConfig" /\ ~vres.valid) =>
    /\ noFetches
    /\ configFile = prevFile

\* the place of a step in the order of cmdBuild
placeOf(name) ==
  IF name = "vite-build" THEN Len(PIPELINE_STEPS) + 1
  ELSE CHOOSE k \in 1..Len(PIPELINE_STEPS) : PIPELINE_STEPS[k].name = name

\* the Vite build has been started
viteStarted == \E k \in 1..Len(executed) : executed[k] = "vite-build"

\* the child of download-assets, a step that is not required, has ended
\* with exit code 1
downloadStepFailed ==
  /\ pphase = "exec"
  /\ PIPELINE_STEPS[pstep].name = "download-assets"
  /\ exited("download-assets")
  /\ pc \in Rejections \/ (pc = "returned" /\ Len(stats.errors) > 0)

\* C30: the steps are executed in the order validate-config, download-assets,
\* optimize-images, generate-metadata, Vite build, each at most once; the
\* Vite build starts only after the loop over all steps and only if no
\* required step failed; a step that is not required and fails is counted
\* as a warning, the loop goes on to the next step, and only a failed
\* validate-config or a failed Vite build ends the command with exit code 1.
C30_BuildOrder ==
  [][ /\ \A k1, k2 \in 1..Len(executed') :
           k1 < k2 => placeOf(executed'[k1]) < placeOf(executed'[k2])
      /\ viteStarted' =>
           /\ tally'.failed = 0
           /\ pstep' > Len(PIPELINE_STEPS)
           /\ \A name \in scripts : \E k \in 1..Len(executed') : executed'[k] = name
      /\ viteStarted' <=> pphase' \in {"vite", "build successful", "build failed"}
      /\ tally'.failed > 0 => (vcalled' = "validateConfig" /\ ~vres'.valid)
      /\ pphase' = "exit 1" => tally'.failed > 0
      /\ (downloadStepFailed /\ pphase' # pphase) =>
           /\ tally' = [tally EXCEPT !.warned = @ + 1]
           /\ pstep' = pstep + 1
           /\ pphase' = "loop" ]_vars

\* the download step failed and was counted as a warning, the two later
\* steps were executed, and the build ended successfully
C30_Witness ==
  /\ pphase = "build successful"
  /\ run = 1
  /\ pc = "returned"
  /\ Len(stats.errors) > 0
  /\ tally.warned >= 1
  /\ tally.failed = 0
  /\ executed = << "validate-config", "download-assets", "optimize-images",
                   "generate-metadata", "vite-build" >>


(***************************************************************************)
(* The walk of download-assets.js: collectRemoteUrls over a tree of any    *)
(* depth.  A slot holds an object, an array, null, a remote URL or         *)
(* another scalar; the slots of a container are the later slots that name  *)
(* it as parent, in document order.                                        *)
(***************************************************************************)
MaxNodes == 3

Object == [kind |-> "object"]
Array == [kind |-> "array"]

\* obj[key], where slot 0 is the argument of the outermost call
valueOf(tree, slot) == IF slot = 0 THEN tree.root ELSE tree.nodes[slot].value

\* a walk that descends into objects and not into arrays
isPlainObject(val) == val.kind = "object"

\* typeof val === 'object' && val !== null
isNonNullObject(val) == val.kind \in {"object", "array"}

\* the loop over the keys of one container from key k on; a remote value is
\* pushed, an object or array is walked before the next key
RECURSIVE collectKeys(_, _, _)
collectKeys(tree, obj, k) ==
  IF k > Len(tree.nodes) THEN << >>
  ELSE IF tree.nodes[k].parent # obj THEN collectKeys(tree, obj, k + 1)
  ELSE LET val == tree.nodes[k].value
           here == IF isRemoteUrl(val) THEN << [url |-> val.url, set |-> k] >>
                   ELSE IF isNonNullObject(val) THEN collectKeys(tree, k, k + 1)
                   ELSE << >>
       IN here \o collectKeys(tree, obj, k + 1)

\* collectRemoteUrls(obj): nothing for null, undefined or a scalar argument
collectRemoteUrlsOf(tree) ==
  IF isNonNullObject(tree.root) THEN collectKeys(tree, 0, 1) ELSE << >>

\* arr[index] = newValue, parent[k] = newValue
setSlot(tree, slot, newValue) ==
  [tree EXCEPT !.nodes[slot].value = newValue]

SlotValues == { Object, Array, Null, Other, Remote([host |-> "a", seg |-> <<1>>]),
                Remote([host |-> "b", seg |-> <<1>>]) }

\* the containers of a document that are still open at its end: the root and
\* the last slot of each open container, when they are objects or arrays
openContainers(tree) ==
  { p \in 0..Len(tree.nodes) :
      /\ valueOf(tree, p) \in {Object, Array}
      /\ \A j \in (p + 1)..Len(tree.nodes) : tree.nodes[j].parent >= p }

\* the trees JSON.parse can return with n slots, in document order
RECURSIVE TreesOf(_)
TreesOf(n) ==
  IF n = 0 THEN { Tree(root, << >>) : root \in {Object, Array, Null, Other} }
  ELSE UNION { { Tree(tree.root, Append(tree.nodes, [parent |-> p, value |-> val])) :
                   p \in openContainers(tree), val \in SlotValues }
               : tree \in TreesOf(n - 1) }

Trees == UNION { TreesOf(n) : n \in 0..MaxNodes }

CallCollectRemoteUrls ==
  /\ wentries' = collectRemoteUrlsOf(wtree)
  /\ wlast' = [called |-> "collect"]
  /\ UNCHANGED << wtree, besideWalk >>

\* entry.set(newValue) of an entry that was returned
CallSet ==
  \E e \in 1..Len(wentries), newValue \in {LocalRef(<<1>>), Other} :
    /\ wtree' = setSlot(wtree, wentries[e].set, newValue)
    /\ wlast' = [called |-> "set", slot |-> wentries[e].set, value |-> newValue,
                 before |-> wtree]
    /\ UNCHANGED << wentries, besideWalk >>

InitCollect ==
  /\ \E cf \in {[i \in Slots |-> Other]} : InitDownloader(cf)
  /\ InitValidator("json", NoConfig)
  /\ InitI18n(FALSE, "")
  /\ InitPipeline(StepNames)
  /\ \E tree \in Trees : InitWalk(tree)
  /\ InitAnalysis(NoImages, NoOutput)
  /\ InitRewrite(NoDir, NoFields)

NextCollect ==
  \/ CallCollectRemoteUrls
  \/ CallSet

SpecCollect == InitCollect /\ [][NextCollect]_vars

\* the entries returned for one slot
entriesOf(slot) == { e \in 1..Len(wentries) : wentries[e].set = slot }

\* C17: collectRemoteUrls returns exactly one entry, carrying the URL, for
\* each slot of the tree at any depth that holds a remote URL, and none for
\* any other slot; after set(v) of an entry the slot of that entry holds v
\* and every other slot, and the root, is as it was before the call.
C17_OneEntryPerRemoteSlot ==
  /\ wlast.called = "collect" =>
       \A slot \in 1..Len(wtree.nodes) :
          IF isRemoteUrl(wtree.nodes[slot].value)
          THEN /\ Cardinality(entriesOf(slot)) = 1
               /\ \A e \in entriesOf(slot) :
                     wentries[e].url = wtree.nodes[slot].value.url
          ELSE entriesOf(slot) = {}
  /\ wlast.called = "set" =>
       /\ wtree.root = wlast.before.root
       /\ Len(wtree.nodes) = Len(wlast.before.nodes)
       /\ \A slot \in 1..Len(wtree.nodes) :
             /\ wtree.nodes[slot].parent = wlast.before.nodes[slot].parent
             /\ wtree.nodes[slot].value =
                  IF slot = wlast.slot THEN wlast.value
                  ELSE wlast.before.nodes[slot].value

\* a URL inside an array inside an object has been collected next to a
\* slot that holds no URL, and its set has overwritten it
C17_Witness ==
  /\ wlast.called = "set"
  /\ wlast.slot > 1
  /\ wlast.before.nodes[wlast.slot].parent > 0
  /\ wlast.before.nodes[wlast.before.nodes[wlast.slot].parent].value = Array
  /\ \E slot \in 1..Len(wtree.nodes) : wtree.nodes[slot].value = Other
  /\ wtree.nodes[wlast.slot].value = LocalRef(<<1>>)

(***************************************************************************)
(* The analysis of the images: pipeline/analyze-images.js.  An image file  *)
(* is its filename and the MD5 hash of its content; an entry of the output *)
(* is an analysis with the hash of the file it was made from, or an error  *)
(* without a hash.                                                         *)
(***************************************************************************)
MaxImages == 2

Hashes == {"h1", "h2"}

\* path.basename of the k-th file of the sorted list
imageName(k) == ToString(k) \o ".png"

\* findImages: the image files of the directory, sorted by name
ImageLists ==
  UNION { { [k \in 1..n |-> [name |-> imageName(k), hash |-> hashes[k]]] :
              hashes \in [1..n -> Hashes] } : n \in 0..MaxImages }

\* the entries a previous output may hold for a filename: none, an analysis
\* of either content, an error, and an analysis that carries an error key
PreviousEntries ==
  { NoEntry, ImageEntry("h1", FALSE), ImageEntry("h2", FALSE), ImageEntry("", TRUE),
    ImageEntry("h1", TRUE) }

\* a cache that trusts every entry it finds
anyEntry(existing, fileHash) == existing.present

\* line 223: existing && existing._hash === fileHash && !existing.error
isCached(existing, fileHash) ==
  existing.present /\ existing.hash = fileHash /\ ~existing.error

\* lines 162-205: the checks, findImages, the load of the previous output
AnalyzeAllImages ==
  /\ aphase = "idle"
  /\ aphase' = IF Len(images) = 0 THEN "exit 0" ELSE "loop"
  /\ UNCHANGED << images, existingAnalysis, analysisResults, imageIndex, counts, sent,
                  besideAnalysis >>

\* lines 216-228: the entry of the previous output is taken over
CachedImage ==
  /\ aphase = "loop"
  /\ imageIndex <= Len(images)
  /\ LET image == images[imageIndex]
         existing == existingAnalysis[image.name]
     IN /\ isCached(existing, image.hash)
        /\ analysisResults' = [analysisResults EXCEPT ![image.name] = existing]
  /\ counts' = [counts EXCEPT !.skipped = @ + 1]
  /\ imageIndex' = imageIndex + 1
  /\ UNCHANGED << images, existingAnalysis, sent, aphase, besideAnalysis >>

\* lines 216-232 and 122-141: analyzeImage sends the image to the service
SendImage ==
  /\ aphase = "loop"
  /\ imageIndex <= Len(images)
  /\ LET image == images[imageIndex]
     IN /\ ~isCached(existingAnalysis[image.name], image.hash)
        /\ sent' = [sent EXCEPT ![image.name] = @ + 1]
  /\ aphase' = "await"
  /\ UNCHANGED << images, existingAnalysis, analysisResults, imageIndex, counts,
                  besideAnalysis >>

\* lines 143-154 and 234-247: the request is answered or fails; an error is
\* recorded without a hash, an analysis with the hash of the file
AnalyzeImageReturns ==
  /\ aphase = "await"
  /\ \E ok \in BOOLEAN :
       LET image == images[imageIndex]
       IN analysisResults' =
            [analysisResults EXCEPT ![image.name] =
               IF ok THEN ImageEntry(image.hash, FALSE) ELSE ImageEntry("", TRUE)]
  /\ counts' = [counts EXCEPT !.analyzed = @ + 1]
  /\ imageIndex' = imageIndex + 1
  /\ aphase' = "loop"
  /\ UNCHANGED << images, existingAnalysis, sent, besideAnalysis >>

\* lines 250-256: the results are written to image-analysis.json
WriteOutput ==
  /\ aphase = "loop"
  /\ imageIndex > Len(images)
  /\ aphase' = "done"
  /\ UNCHANGED << images, existingAnalysis, analysisResults, imageIndex, counts, sent,
                  besideAnalysis >>

InitAnalyze ==
  /\ InitDownloader([s \in Slots |-> Other])
  /\ InitValidator("json", NoConfig)
  /\ InitI18n(FALSE, "")
  /\ InitPipeline(StepNames)
  /\ InitWalk(NoTree)
  /\ InitRewrite(NoDir, NoFields)
  /\ \E found \in ImageLists :
       \E previous \in [{found[k].name : k \in 1..Len(found)} -> PreviousEntries] :
         InitAnalysis(found, previous)

NextAnalyze ==
  \/ AnalyzeAllImages
  \/ CachedImage
  \/ SendImage
  \/ AnalyzeImageReturns
  \/ WriteOutput

SpecAnalyze == InitAnalyze /\ [][NextAnalyze]_vars

\* the image files of the run, by filename
imageNames == {images[k].name : k \in 1..Len(images)}
hashOf(name) == (CHOOSE k \in 1..Len(images) : images[k].name = name)

\* C25: in a run an image is sent to the service at most once, and not at
\* all when the previous output holds an entry for its filename with the
\* hash of the file and no error, whose entry is then taken over; at the end
\* of the run every other image, one with an entry that recorded an error
\* or another hash included, has been sent once.
C25_CachedByHash ==
  \A name \in imageNames :
    LET fileHash == images[hashOf(name)].hash
        existing == existingAnalysis[name]
        hit == existing.present /\ existing.hash = fileHash /\ ~existing.error
    IN /\ sent[name] <= 1
       /\ hit => sent[name] = 0
       /\ aphase = "done" =>
            /\ ~hit => sent[name] = 1
            /\ hit => analysisResults[name] = existing
            /\ counts.analyzed + counts.skipped = Len(images)

\* one image was served from the previous output, and one whose entry has
\* the hash of another content was analysed again
C25_Witness ==
  /\ aphase = "done"
  /\ Len(images) = 2
  /\ existingAnalysis["1.png"] = ImageEntry(images[1].hash, FALSE)
  /\ existingAnalysis["2.png"].present
  /\ ~existingAnalysis["2.png"].error
  /\ existingAnalysis["2.png"].hash # images[2].hash
  /\ sent["1.png"] = 0
  /\ sent["2.png"] = 1
  /\ analysisResults["2.png"] = ImageEntry(images[2].hash, FALSE)

(***************************************************************************)
(* The rewrite of download-assets.js and the urlString rule of schemas.js, *)
(* on strings.  A string is the sequence of its characters; a directory is *)
(* the sequence of the segments of its resolved path.                      *)
(***************************************************************************)
MaxFields == 2

Letters ==
  { "a", "b", "c", "d", "e", "f", "g", "h", "i", "j", "k", "l", "m", "n", "o", "p",
    "q", "r", "s", "t", "u", "v", "w", "x", "y", "z" }
Digits == { "0", "1", "2", "3", "4", "5", "6", "7", "8", "9" }

startsWith(str, prefix) ==
  Len(str) >= Len(prefix) /\ SubSeq(str, 1, Len(prefix)) = prefix

\* String.prototype.includes, of a character
contains(str, c) == \E k \in 1..Len(str) : str[k] = c

RECURSIVE trimStart(_)
trimStart(str) ==
  IF Len(str) > 0 /\ str[1] = " " THEN trimStart(Tail(str)) ELSE str

RECURSIVE trimEnd(_)
trimEnd(str) ==
  IF Len(str) > 0 /\ str[Len(str)] = " "
  THEN trimEnd(SubSeq(str, 1, Len(str) - 1))
  ELSE str

\* String.prototype.trim, of spaces
trim(str) == trimEnd(trimStart(str))

\* the position of the first c in str, or 0
indexOf(str, c) ==
  IF contains(str, c) THEN CHOOSE k \in 1..Len(str) :
                             str[k] = c /\ \A j \in 1..(k - 1) : str[j] # c
  ELSE 0

RECURSIVE split(_, _)
\* str.split(c).filter(Boolean)
split(str, c) ==
  LET k == indexOf(str, c)
  IN IF k = 0 THEN (IF Len(str) = 0 THEN << >> ELSE << str >>)
     ELSE (IF k = 1 THEN << >> ELSE << SubSeq(str, 1, k - 1) >>)
          \o split(SubSeq(str, k + 1, Len(str)), c)

RECURSIVE joinSegments(_)
\* the segments joined with '/'
joinSegments(segments) ==
  IF Len(segments) = 0 THEN << >>
  ELSE IF Len(segments) = 1 THEN segments[1]
  ELSE segments[1] \o << "/" >> \o joinSegments(Tail(segments))

\* new URL(val) without a base: the string has a scheme, and a host after it
\* when the scheme is http or https
parsesAsUrl(val) ==
  LET k == indexOf(val, ":")
      scheme == SubSeq(val, 1, k - 1)
      rest == SubSeq(val, k + 1, Len(val))
  IN /\ k > 1
     /\ val[1] \in Letters
     /\ \A j \in 2..(k - 1) : val[j] \in Letters \cup Digits \cup {"+", "-", "."}
     /\ scheme \in { << "h", "t", "t", "p" >>, << "h", "t", "t", "p", "s" >> } =>
          Len(split(rest, "/")) > 0

\* a rule that takes every string that is not empty for a reference
anyNonEmpty(val) == TRUE

\* part_009 lines 81-99: the refinement of urlString
urlOrPath(val) ==
  \/ startsWith(val, << "/" >>)
  \/ startsWith(val, << ".", "/" >>)
  \/ startsWith(val, << ".", ".", "/" >>)
  \/ startsWith(val, << "a", "s", "s", "e", "t", "s", "/" >>)
  \/ startsWith(val, << "p", "u", "b", "l", "i", "c", "/" >>)
  \/ startsWith(val, << "d", "a", "t", "a", ":" >>)
  \/ (contains(val, "/") /\ ~contains(val, " ") /\ ~startsWith(val, << "h", "t", "t", "p" >>))
  \/ parsesAsUrl(val)

\* urlString: z.string().trim().min(1, ...).refine(...); a failed min
\* leaves the parse dirty and the refinement runs
urlStringIssues(val, path) ==
  LET v == trim(val)
  IN (IF Len(v) < 1 THEN << Issue(path, "URL must not be empty", FALSE) >> ELSE << >>)
     \o (IF urlOrPath(v) THEN << >>
         ELSE << Issue(path, "Must be a valid URL or relative path", FALSE) >>)

\* nonEmptyString: z.string().trim().min(1, 'Must not be empty')
nonEmptyStringIssues(val, path) ==
  IF Len(trim(val)) < 1 THEN << Issue(path, "Must not be empty", FALSE) >> ELSE << >>

RECURSIVE fieldIssues(_, _)
\* the issues of the string fields from k on, each under its schema
fieldIssues(tree, k) ==
  IF k > Len(tree) THEN << >>
  ELSE (IF tree[k].schema = "urlString"
        THEN urlStringIssues(tree[k].value, "fields." \o ToString(k - 1))
        ELSE nonEmptyStringIssues(tree[k].value, "fields." \o ToString(k - 1)))
       \o fieldIssues(tree, k + 1)

\* validateSiteConfig on a tree whose other parts are valid
validateFields(tree) ==
  LET issues == fieldIssues(tree, 1)
  IN [valid |-> Len(issues) = 0,
      errors |-> [k \in 1..Len(issues) |-> issues[k].path \o ": " \o issues[k].message]]

\* part_008 line 164: isRemoteUrl, on a string
isRemoteUrlString(val) ==
  \/ startsWith(val, << "h", "t", "t", "p", ":", "/", "/" >>)
  \/ startsWith(val, << "h", "t", "t", "p", "s", ":", "/", "/" >>)

SafeCharacters == Letters \cup Digits \cup {".", "_", "-"}

RECURSIVE stripDots(_)
\* filename.replace(/^\.+/, '')
stripDots(str) ==
  IF Len(str) > 0 /\ str[1] = "." THEN stripDots(Tail(str)) ELSE str

\* 'asset_' + simpleHash(urlString)
hashedName == << "a", "s", "s", "e", "t", "_", "0" >>

\* part_008 lines 33-65: localFilenameFromUrl of an http(s) URL without query
\* or fragment: the last segment of the path, sanitised
filenameFromUrl(url) ==
  LET afterScheme == SubSeq(url, indexOf(url, ":") + 1, Len(url))
      parts == split(afterScheme, "/")
      last == IF Len(parts) > 1 THEN parts[Len(parts)] ELSE << >>
      safe == [k \in 1..Len(last) |->
                 IF last[k] \in SafeCharacters THEN last[k] ELSE "_"]
      filename == stripDots(safe)
  IN IF Len(filename) = 0 THEN hashedName ELSE filename

\* the length of the longest common prefix of two lists of segments
commonLength(from, to) ==
  CHOOSE n \in 0..Len(from) :
    /\ n <= Len(to)
    /\ SubSeq(from, 1, n) = SubSeq(to, 1, n)
    /\ \A m \in (n + 1)..Len(from) :
         m > Len(to) \/ SubSeq(from, 1, m) # SubSeq(to, 1, m)

\* path.relative(from, to) of two resolved directories
relative(from, to) ==
  LET n == commonLength(from, to)
  IN joinSegments([k \in 1..(Len(from) - n) |-> << ".", "." >>]
                    \o SubSeq(to, n + 1, Len(to)))

\* path.join(dir, filename) of a relative directory and a filename
pathJoin(dir, filename) ==
  IF Len(dir) = 0 THEN filename ELSE dir \o << "/" >> \o filename

\* path.dirname of the resolved path of the configuration file: /s
configDir == << << "s" >> >>

\* part_008 lines 271-274
resolvedOutputDir(dir) ==
  IF dir.given THEN dir.segments ELSE configDir \o << << "a", "s", "s", "e", "t", "s" >> >>

\* part_008 lines 277 and 320
localRefString(dir, url) ==
  pathJoin(relative(configDir, resolvedOutputDir(dir)), filenameFromUrl(url))

\* the directories given as outputDir: none, /s/assets, /s/img, /s itself,
\* /s/httpd, "/s/my a", /o, and the root
OutputDirs ==
  { NoDir } \cup
  { [given |-> TRUE, segments |-> d] :
      d \in { configDir \o << << "a", "s", "s", "e", "t", "s" >> >>,
              configDir \o << << "i", "m", "g" >> >>,
              configDir,
              configDir \o << << "h", "t", "t", "p", "d" >> >>,
              configDir \o << << "m", "y", " ", "a" >> >>,
              << << "o" >> >>,
              << >> } }

\* the strings of a field: two remote URLs whose filenames differ, a local
\* path, and a text
FieldValues ==
  { << "h", "t", "t", "p", "s", ":", "/", "/", "a", "/", "i", ".", "j", "p", "g" >>,
    << "h", "t", "t", "p", "s", ":", "/", "/", "b", "/", "k", ".", "p", "n", "g" >>,
    << "a", "s", "s", "e", "t", "s", "/", "l", ".", "g", "i", "f" >>,
    << "h", "i" >> }

Field(schema, value) == [schema |-> schema, value |-> value]

\* the trees of up to MaxFields string fields that pass the validation
FieldTrees ==
  { tree \in UNION { [1..n -> { Field(sc, v) : sc \in {"urlString", "nonEmptyString"},
                                               v \in FieldValues }] :
                      n \in 0..MaxFields } :
      validateFields(tree).valid }

RECURSIVE uniqueUrls(_, _, _)
\* part_008 lines 295 and 305: the remote URLs of the tree, each once, in the
\* order of the walk
uniqueUrls(tree, k, seen) ==
  IF k > Len(tree) THEN << >>
  ELSE IF isRemoteUrlString(tree[k].value) /\ tree[k].value \notin seen
       THEN << tree[k].value >> \o uniqueUrls(tree, k + 1, seen \cup {tree[k].value})
       ELSE uniqueUrls(tree, k + 1, seen)

\* the setters of url, called with ref
setAll(tree, url, ref) ==
  [k \in 1..Len(tree) |->
     IF tree[k].value = url THEN Field(tree[k].schema, ref) ELSE tree[k]]

\* part_008 lines 281-311: the file is read, the URLs collected; the run
\* returns at once when there is none
DownloadAssets ==
  /\ refPhase = "idle"
  /\ refUrls' = uniqueUrls(refFields, 1, {})
  /\ refPhase' = IF Len(refUrls') = 0 THEN "returned" ELSE "loop"
  /\ UNCHANGED << assetDir, refFields, refResult, besideRewrite >>

\* lines 314-346: the URL is saved, or found on disk, and its setters are
\* called with the local reference
ReferenceRewritten ==
  /\ refPhase = "loop"
  /\ Len(refUrls) > 0
  /\ refFields' = setAll(refFields, Head(refUrls), localRefString(assetDir, Head(refUrls)))
  /\ refUrls' = Tail(refUrls)
  /\ UNCHANGED << assetDir, refPhase, refResult, besideRewrite >>

\* lines 346-350: the download failed, the fields keep the URL
ReferenceKept ==
  /\ refPhase = "loop"
  /\ Len(refUrls) > 0
  /\ refUrls' = Tail(refUrls)
  /\ UNCHANGED << assetDir, refFields, refPhase, refResult, besideRewrite >>

\* lines 354-357: the tree is written back
ConfigWritten ==
  /\ refPhase = "loop"
  /\ Len(refUrls) = 0
  /\ refPhase' = "returned"
  /\ UNCHANGED << assetDir, refFields, refUrls, refResult, besideRewrite >>

\* validateSiteConfig on the configuration that the run left in the file
ValidateWritten ==
  /\ refPhase = "returned"
  /\ refResult' = validateFields(refFields)
  /\ refPhase' = "validated"
  /\ UNCHANGED << assetDir, refFields, refUrls, besideRewrite >>

InitReferences ==
  /\ InitDownloader([s \in Slots |-> Other])
  /\ InitValidator("json", NoConfig)
  /\ InitI18n(FALSE, "")
  /\ InitPipeline(StepNames)
  /\ InitWalk(NoTree)
  /\ InitAnalysis(NoImages, NoOutput)
  /\ \E dir \in OutputDirs : \E tree \in FieldTrees : InitRewrite(dir, tree)

NextReferences ==
  \/ DownloadAssets
  \/ ReferenceRewritten
  \/ ReferenceKept
  \/ ConfigWritten
  \/ ValidateWritten

SpecReferences == InitReferences /\ [][NextReferences]_vars

\* C29: the configuration that downloadAssets wrote back from a valid one
\* passes validateSiteConfig, whatever the output directory is: every local
\* reference that replaced a remote URL is accepted by the rule of its field.
C29_RewriteKeepsValid ==
  refPhase = "validated" => refResult.valid

====
